---- MODULE Spec2Model ----
(***************************************************************************)
(* withny-dl: the HLS pull engine (hls/hls_downloader.go), the download    *)
(* step that wraps it (withny/livestream.go) and the channel watcher that  *)
(* dispatches recordings and reports their state                           *)
(* (withny/channel_watcher.go).                                            *)
(*                                                                         *)
(* Spec      one recording: fillQueue (producer), Read (consumer),         *)
(*           DownloadLiveStream, Process and the state set by Watch.       *)
(* SpecWatch the watchers of one configuration dispatching recordings.     *)
(***************************************************************************)
EXTENDS Integers, Sequences, FiniteSets, TLC

\* ------------------------------------------------------------------ bounds
\* Fragment URLs the server can list.
NumURLs == 3
\* Distinct file names; URL u lives in directory (u-1) \div NumNames.
NumNames == 3
\* Lines of one playlist.
MaxPlaylistLen == 2
\* Playlist polls answered with a playlist in one recording.
MaxPolls == 2
\* Largest configured packetLossMax.
MaxPacketLossMax == 1
\* Watchers of one configuration and streams the service can list.
NumWatchers == 2
NumStreams == 2
\* Recordings one watcher dispatches.
MaxDispatch == 2
\* Versions of the configuration file written during a run.
MaxConfigs == 4
\* Recordings in flight under one configuration.
MaxInflight == 1
\* tries of a retry helper, and its maxBackoff in units of the first delay.
MaxTries == 3
MaxBackoff == 4
\* Variants of a master playlist, and rounds of the selection loop followed.
NumVariants == 3
MaxProbeRounds == 2
\* Minutes of LoginLoop that are followed.
MaxTime == 60
\* Recordings that prepare their files, and names the template expands to.
NumRecordings == 3
NumTitles == 2
\* Largest playlistRetries given to GetPlaylists.
MaxPlaylistRetries == 3
\* Longest list of playlists and of constraints given to GetBestPlaylist.
MaxStreams == 2
MaxConstraints == 1
\* Goroutines that use one Set, the keys they use, and the operations they call.
NumGoroutines == 2
NumKeys == 2
MaxSetOps == 3
\* Minutes the idle rule of fillQueue is followed for, new fragments in one poll.
MaxClock == 7
MaxNew == 2
\* Configurations ConfigReloader receives when its go statement is followed.
MaxReloads == 5
\* Longest packet given to UnmarshalV4.
MaxPacketLen == 4

\* ------------------------------------------------------- program constants
\* fragChan := make(chan Fragment, 10)
FragChanCap == 10
\* timeZero = time.Unix(0, 0); times are seconds since the epoch.
timeZero == 0
\* The zero value time.Time{} (year 1), before every other time.
NoTime == -1
\* A playlist line that is not preceded by #EXT-X-PROGRAM-DATE-TIME.
NoPDT == -2
\* lastFragmentName == ""
NoName == 0

URLs == 1..NumURLs

\* filepath.Base(u.URL): the file name of the URL without its directory.
Base(u) == ((u - 1) % NumNames) + 1

\* The program-date-time the server attaches to fragment u (increasing).
PDTOf(u) == u

\* One playlist entry: an optional #EXT-X-PROGRAM-DATE-TIME line and a URL line.
Line(u, pdt) == [URL |-> u, PDT |-> pdt]

\* A window of n consecutive fragments from fragment i on, each dated.
Window(i, n) == [k \in 1..n |-> Line(i + k - 1, PDTOf(i + k - 1))]

\* How a server can write the window: every fragment dated, every fragment
\* dated at the Unix epoch, no date line at all, or the first URL listed again
\* after the last one.
Forms == {"dated", "epoch", "undated", "repeated"}
PlaylistOf(i, n, form) ==
    CASE form = "dated" -> Window(i, n)
      [] form = "epoch" -> [k \in 1..n |-> Line(i + k - 1, timeZero)]
      [] form = "undated" -> [k \in 1..n |-> Line(i + k - 1, NoPDT)]
      [] OTHER -> Window(i, n) \o <<Line(i, PDTOf(i))>>

\* Every playlist fillQueue is tried against: the windows of up to
\* MaxPlaylistLen fragments, newer or older than the poll before, in every form.
Playlists ==
    {<<>>} \cup {PlaylistOf(w[1], w[2], form) :
                   w \in {v \in URLs \X (1..MaxPlaylistLen) : v[1] + v[2] - 1 <= NumURLs},
                   form \in Forms}

\* The playlists of a live stream in the engine: the dated window of
\* MaxPlaylistLen fragments, or an empty playlist.
DatedPlaylists ==
    {<<>>} \cup {Window(i, MaxPlaylistLen) : i \in {k \in URLs : k + MaxPlaylistLen - 1 <= NumURLs}}

\* GetFragmentURLs, the scan of the response body (lines 207-243):
\* currentFragment.Time accumulates, a URL already in exists is not appended.
RECURSIVE ScanLines(_, _, _, _)
ScanLines(lines, fragments, exists, currentTime) ==
    IF lines = <<>> THEN fragments
    ELSE LET l == Head(lines)
             t == IF l.PDT = NoPDT THEN currentTime ELSE l.PDT
         IN  IF l.URL \in exists
             THEN ScanLines(Tail(lines), fragments, exists, t)
             ELSE ScanLines(Tail(lines), Append(fragments, [URL |-> l.URL, Time |-> t]),
                            exists \cup {l.URL}, t)

GetFragmentURLs(lines) == ScanLines(lines, <<>>, {}, NoTime)

\* ------------------------------------------------------------------- state
VARIABLES
    packetLossMax,        \* Downloader.packetLossMax (Params.PacketLossMax)
    parentDone,           \* the context given to Process is cancelled
    readDone,             \* Read called cancel() on its own context
    dlPC,                 \* position of Process/DownloadLiveStream/Watch's task
    dlErr,                \* the error DownloadLiveStream returned
    chanState,            \* state.DefaultState of the recorded channel
    fillPC,               \* position of the fillQueue goroutine
    fillErr,              \* the error fillQueue returns through errChan
    fillErrorCount,       \* errorCount of fillQueue
    pending,              \* fragments[newIdx:] not yet sent on fragChan
    lastFragmentName,
    lastFragmentTime,
    useTimeBasedSorting,
    fragChan,             \* the buffered channel between fillQueue and Read
    readErrorCount,       \* errorCount of Read
    readErr,              \* the error Read returned
    downloads,            \* history: what download returned for each received fragment
    pollErr,              \* the error of fillQueue's last GetFragmentURLs
    emitted,              \* history: fragments sent on fragChan
    polls,                \* history: playlists returned to fillQueue
    processingStreams,    \* per watcher: ChannelWatcher.processingStreams
    watchPC,              \* per watcher: position of Watch's loop
    found,                \* per watcher: res, the HasNewStreamResponse of its loop
    tasks,                \* per watcher and stream UUID: recording goroutines running
    dispatched,           \* per watcher: recordings dispatched so far
    ignore,               \* per watcher: params.Ignore, channels not to record
    fileVersion,          \* the version of the configuration file on disk
    lastModTime,          \* ObserveConfig: the version it last stat'ed
    sending,              \* ObserveConfig: the config it is blocked sending on configChan
    reloaderPC,           \* position of ConfigReloader
    newConfig,            \* ConfigReloader: the config received and not yet started
    current,              \* ConfigReloader: the config whose configCancel it holds
    handlers,             \* per config: state of its handleConfig goroutine
    inflight,             \* per config: recordings in flight under its watchers
    activated,            \* history: configs handed to handleConfig, in order
    drainWrites,          \* history: versions written during the current drain
    stale,                \* history: versions overwritten during the drain they were written in
    reloaderWait,         \* seconds ConfigReloader has waited for doneChan
    watcherWait,          \* seconds the watchers have been in waitProcessingOrFatal
    rootDone,             \* the context given to ConfigReloader is cancelled
    fatal,                \* who called log.Fatal
    tryHelper,            \* which function of package try is running
    tryPC,                \* its position
    tryCalls,             \* how many times it has called fn
    tryDelay,             \* its delay variable
    sleepLeft,            \* what is left of its time.Sleep(delay)
    tryErr,               \* the error of its last call of fn
    tryCtxDone,           \* the context fn works under is cancelled
    detStreams,           \* HasNewStream alone: what GetStreams returned
    detVal,               \* what GetUser and GetStreamPlaybackURL do for each entry
    detProcessing,        \* processingStreams at the call
    detIgnored,           \* params.Ignore at the call
    detPC,                \* "call" before HasNewStream's closure ran, "done" after
    detRes,               \* the HasNewStreamResponse
    acceptable,           \* the variants that satisfy Params.QualityConstraint
    ignoredURLs,          \* constraint.Ignored
    probePC,              \* position in DownloadLiveStream's selection loop
    playlist,             \* the variant of this round
    playlistFound,        \* ok of playlist, ok := api.GetBestPlaylist(...)
    probeTries,           \* failed tries of Probe in this round
    probeRounds,          \* rounds of the loop so far
    probeResult,          \* how the probing of this round's variant ended
    \* Client.Login and Client.LoginLoop with the credentials cache
    cachePresent,         \* the cache file exists
    cacheToken,           \* Token of the record in the cache file
    loginPC,              \* position of LoginLoop
    now,                  \* the clock, in minutes
    nextRefresh,          \* when the ticker of LoginLoop fires next
    refreshErr,           \* what LoginWithRefreshToken answered in the last Login
    refreshFailures,      \* consecutive Logins whose refresh failed
    creds,                \* the token the last successful Login obtained
    loginErr,             \* what the last Login returned
    \* Client.GetPlaylists
    playlistRetries,      \* its argument
    count,                \* its loop counter
    gpPC,                 \* position of GetPlaylists
    responses,            \* status of every response so far
    lastHTTPError,        \* Status of lastHTTPError
    gpErr,                \* the error returned
    gpPlaylists,          \* playlists were returned
    \* PrepareFileAutoRename and os.Create of concurrent recordings
    files,                \* names that exist on disk
    filePC,               \* position of each recording
    fName,                \* the name PrepareFileAutoRename returned to each
    title,                \* what the template expands to for each
    \* the post-processing of Process
    params,               \* w.params
    ppPC,                 \* position in Process after DownloadLiveStream
    ppDlErr,              \* dlErr
    probeErr,             \* probeErr # nil
    remuxErr,             \* remuxErr # nil
    extractAudioErr,      \* extractAudioErr # nil
    rawExists,            \* fnameStream exists
    removedBy,            \* the statement that removed fnameStream
    ppResult,             \* what Process returned
    \* DownloadChat and WebSocket.WatchComments
    chatCtxDone,          \* chatDownloadCtx is cancelled
    initPC,               \* the goroutine of ConnectionInit
    subscribers,          \* goroutines of Subscribe that have not written yet
    wsSent,               \* messages written on the connection, in order
    received,             \* types of the messages WatchComments has read
    wsPC,                 \* position of WatchComments
    commentsCh,           \* number of comments buffered in commentsCh
    writerPC,             \* the goroutine that writes the chat file
    chatErr,              \* what DownloadChat returned
    \* GetBestPlaylist
    bpStreams,            \* its streams argument
    bpConstraints,        \* its constraints arguments
    bpPC,                 \* called or returned
    bpBest,               \* the playlist returned
    bpFound,              \* the flag returned
    \* sync.Set
    items,                \* s.items, as the set of its keys
    mu,                   \* s.mu: the goroutine that holds Lock, those that hold RLock
    setPC,                \* position of each goroutine in its operation
    setOp,                \* the operation each goroutine is in, and its key
    setLocal,             \* the map as the writing goroutine found it
    setLog,               \* the writes to s.items, in the order they took effect
    setRet,               \* what the last read of each goroutine returned and should have
    setOps,               \* operations called so far
    \* fillQueue against the clock
    clock,                \* time.Now(), in minutes
    lastFragmentReceivedTimestamp,
    idlePC,               \* position of fillQueue
    nNew,                 \* fragments of fragments[newIdx:] still to send
    queued,               \* len(fragChan)
    blocked,              \* minutes spent in a send on a full fragChan since the timestamp
    idleErr,              \* what fillQueue returned
    \* the go statement of ConfigReloader
    ctxDone,              \* ctx of ConfigReloader is cancelled
    configContext,        \* the variable: NilContext, or the context made for a config
    cancelled,            \* the config contexts whose configCancel was called
    reloadPC,             \* position of ConfigReloader
    reloads,              \* configurations received so far
    goPC,                 \* position of the goroutine started for each config
    handlerCtx,           \* the context handleConfig was called with, per config
    \* socketio.UnmarshalV4
    sioData,              \* its argument, a sequence of bytes
    sioPC,                \* called or returned
    sioResult             \* the message and error returned, or the panic

hlsVars == <<packetLossMax, parentDone, readDone, dlPC, dlErr, chanState, fillPC, fillErr,
             fillErrorCount, pending, lastFragmentName, lastFragmentTime,
             useTimeBasedSorting, fragChan, readErrorCount, readErr, downloads, pollErr,
             emitted, polls>>
\* fillQueue's locals and its history.
producerVars == <<fillPC, fillErr, fillErrorCount, pending, lastFragmentName,
                  lastFragmentTime, useTimeBasedSorting, emitted, polls, pollErr>>
\* Read's locals other than fragChan and its own cancel().
consumerVars == <<readErrorCount, readErr, downloads, readDone>>
\* The recording task around Read.
taskVars == <<packetLossMax, parentDone, dlPC, dlErr, chanState>>
watchVars == <<processingStreams, watchPC, found, tasks, dispatched, ignore>>
cfgVars == <<fileVersion, lastModTime, sending, reloaderPC, newConfig, current, handlers,
             inflight, activated, drainWrites, stale, reloaderWait, watcherWait, rootDone,
             fatal>>
\* What the recording engine and the watchers leave alone.
tryVars == <<tryHelper, tryPC, tryCalls, tryDelay, sleepLeft, tryErr, tryCtxDone>>
detVars == <<detStreams, detVal, detProcessing, detIgnored, detPC, detRes>>
probeVars == <<acceptable, ignoredURLs, probePC, playlist, playlistFound, probeTries,
               probeRounds, probeResult>>
loginVars == <<cachePresent, cacheToken, loginPC, now, nextRefresh, refreshErr,
               refreshFailures, creds, loginErr>>
gpVars == <<playlistRetries, count, gpPC, responses, lastHTTPError, gpErr, gpPlaylists>>
fileVars == <<files, filePC, fName, title>>
ppVars == <<params, ppPC, ppDlErr, probeErr, remuxErr, extractAudioErr, rawExists,
            removedBy, ppResult>>
chatVars == <<chatCtxDone, initPC, subscribers, wsSent, received, wsPC, commentsCh,
              writerPC, chatErr>>
\* The groups of the recording engine, the watchers and the client.
coreVars == <<hlsVars, watchVars, cfgVars, tryVars, detVars, probeVars, loginVars, gpVars,
              fileVars, ppVars>>
bpVars == <<bpStreams, bpConstraints, bpPC, bpBest, bpFound>>
setVars == <<items, mu, setPC, setOp, setLocal, setLog, setRet, setOps>>
idleVars == <<clock, lastFragmentReceivedTimestamp, idlePC, nNew, queued, blocked, idleErr>>
goVars == <<ctxDone, configContext, cancelled, reloadPC, reloads, goPC, handlerCtx>>
sioVars == <<sioData, sioPC, sioResult>>
libVars == <<chatVars, bpVars, setVars, idleVars, goVars, sioVars>>
extVars == <<loginVars, gpVars, fileVars, ppVars, libVars>>
auxVars == <<cfgVars, tryVars, detVars, probeVars, extVars>>
vars == <<hlsVars, watchVars, auxVars>>

Watchers == 1..NumWatchers
Streams == 1..NumStreams

\* The context Read derives with context.WithCancel(ctx) is done.
CtxDone == parentDone \/ readDone

\* ---------------------------------------------------------------- fillQueue
\* The scan for the last emitted fragment (lines 316-337).  scan is
\* [newIdx, useTimeBasedSorting]; i is the 0-based index of Head(rest).
RECURSIVE ResumeScan(_, _, _, _, _)
ResumeScan(rest, i, scan, lastName, lastTime) ==
    IF rest = <<>> THEN scan
    ELSE LET u == Head(rest)
             tbs == scan.useTimeBasedSorting /\ ~(u.Time = timeZero)
             fragmentTime == IF tbs THEN u.Time ELSE NoTime
             hit == lastName = Base(u.URL) /\ ((tbs /\ lastTime >= fragmentTime) \/ ~tbs)
         IN  ResumeScan(Tail(rest), i + 1,
                        [newIdx |-> IF hit THEN i + 1 ELSE scan.newIdx,
                         useTimeBasedSorting |-> tbs],
                        lastName, lastTime)

\* Resume with the guard of line 318 never true: every poll starts at index 0.
ResumeNever(fragments, lastName, lastTime, tbs) ==
    [newIdx |-> 0, useTimeBasedSorting |-> tbs]

Resume(fragments, lastName, lastTime, tbs) ==
    IF lastName # NoName /\ ((tbs /\ ~(lastTime = timeZero)) \/ ~tbs)
    THEN ResumeScan(fragments, 0, [newIdx |-> 0, useTimeBasedSorting |-> tbs],
                    lastName, lastTime)
    ELSE [newIdx |-> 0, useTimeBasedSorting |-> tbs]

\* fragments[newIdx:]
SliceFrom(s, newIdx) == SubSeq(s, newIdx + 1, Len(s))

\* What a playlist fetch can fail with.
PollErrors == {"stream_ended", "forbidden", "http_error", "deadline"}

\* The end of one iteration of fillQueue's loop (lines 353-361): more than
\* five minutes since the last new fragment returns io.EOF, else sleep and poll.
FillIterationEnd(timedOut) ==
    IF timedOut
    THEN /\ fillPC' = "report"
         /\ fillErr' = "EOF"
    ELSE /\ fillPC' = "poll"
         /\ UNCHANGED fillErr

\* FillQueueTolerates with < for <=.
FillQueueToleratesLess(errorCount, max) == errorCount < max

\* if errorCount <= hls.packetLossMax (line 304): sleep a second and poll again.
FillQueueTolerates(errorCount, max) == errorCount <= max

\* GetFragmentURLs fails (lines 285-314); with a done context the request
\* fails with context.Canceled whatever the server would answer.
FillQueuePollError(e) ==
    /\ fillPC = "poll"
    /\ dlPC = "read"
    /\ UNCHANGED <<pending, lastFragmentName, lastFragmentTime, useTimeBasedSorting,
                   fragChan, emitted, polls>>
    /\ UNCHANGED <<consumerVars, taskVars, watchVars, auxVars>>
    /\ LET err == IF CtxDone THEN "canceled" ELSE e
       IN  /\ pollErr' = err
           /\ CASE err = "stream_ended" ->
                     /\ fillErr' = "EOF"
                     /\ fillPC' = "report"
                     /\ UNCHANGED fillErrorCount
                [] err = "deadline" ->
                     /\ fillErrorCount' = fillErrorCount + 1
                     /\ IF FillQueueTolerates(fillErrorCount + 1, packetLossMax)
                        THEN UNCHANGED <<fillErr, fillPC>>
                        ELSE /\ fillErr' = err
                             /\ fillPC' = "report"
                [] OTHER ->
                     /\ fillErr' = err
                     /\ fillPC' = "report"
                     /\ UNCHANGED fillErrorCount

\* GetFragmentURLs returns a playlist (lines 316-343).
FillQueuePoll(lines, timedOut) ==
    /\ fillPC = "poll"
    /\ dlPC = "read"
    /\ ~CtxDone
    /\ Len(polls) < MaxPolls
    /\ LET fragments == GetFragmentURLs(lines)
           scan == Resume(fragments, lastFragmentName, lastFragmentTime, useTimeBasedSorting)
           new == SliceFrom(fragments, scan.newIdx)
       IN  /\ useTimeBasedSorting' = scan.useTimeBasedSorting
           /\ pending' = new
           /\ polls' = Append(polls, lines)
           /\ pollErr' = "nil"
           /\ IF new = <<>>
              THEN FillIterationEnd(timedOut)
              ELSE /\ fillPC' = "send"
                   /\ UNCHANGED fillErr
    /\ UNCHANGED <<fillErrorCount, lastFragmentName, lastFragmentTime, fragChan, emitted>>
    /\ UNCHANGED <<consumerVars, taskVars, watchVars, auxVars>>

\* One turn of the loop over fragments[newIdx:] (lines 345-351).
FillQueueSend(timedOut) ==
    /\ fillPC = "send"
    /\ Len(fragChan) < FragChanCap
    /\ LET f == Head(pending)
       IN  /\ lastFragmentName' = Base(f.URL)
           /\ lastFragmentTime' = IF useTimeBasedSorting THEN f.Time ELSE lastFragmentTime
           /\ fragChan' = Append(fragChan, f)
           /\ emitted' = Append(emitted, f)
    /\ pending' = Tail(pending)
    /\ IF Tail(pending) = <<>>
       THEN FillIterationEnd(timedOut)
       ELSE UNCHANGED <<fillPC, fillErr>>
    /\ UNCHANGED <<fillErrorCount, useTimeBasedSorting, polls, pollErr>>
    /\ UNCHANGED <<consumerVars, taskVars, watchVars, auxVars>>

\* --------------------------------------------------------------------- Read
\* What download returns when the context is not done.
DownloadResults == {"ok", "forbidden", "failed"}

\* ReadTolerates with one failure more than the budget.
ReadToleratesOneMore(errorCount, max) == errorCount <= max + 1

\* if errorCount <= hls.packetLossMax (line 512): skip the fragment and go on.
ReadTolerates(errorCount, max) == errorCount <= max

\* case frag := <-fragChan (lines 491-517), download included; with a done
\* context download fails with context.Canceled.
ReadRecvFrag(r) ==
    /\ dlPC = "read"
    /\ fragChan # <<>>
    /\ fragChan' = Tail(fragChan)
    /\ UNCHANGED <<producerVars, readErr, taskVars, watchVars, auxVars>>
    /\ LET err == IF CtxDone THEN "canceled" ELSE r
       IN  /\ downloads' = Append(downloads, err)
           /\ CASE err = "ok" -> UNCHANGED <<readErrorCount, readDone>>
                [] err = "canceled" -> UNCHANGED <<readErrorCount, readDone>>
                [] err = "forbidden" ->
                     /\ readDone' = TRUE
                     /\ UNCHANGED readErrorCount
                [] OTHER ->
                     /\ readErrorCount' = readErrorCount + 1
                     /\ readDone' = (readDone \/ ~ReadTolerates(readErrorCount + 1, packetLossMax))

\* The URLs copied to the writer, in order.
written == LET ok == {i \in 1..Len(downloads) : downloads[i] = "ok"}
               nth(k) == CHOOSE i \in ok : Cardinality({j \in ok : j < i}) = k - 1
           IN  [k \in 1..Cardinality(ok) |-> emitted[nth(k)].URL]
\* The fragments Read received and moved past without writing them.
skipped == Cardinality({i \in 1..Len(downloads) : downloads[i] # "ok"})

\* case err := <-errChan (lines 520-534): fillQueue's send on the unbuffered
\* errChan meets Read's select, whatever fragChan holds.
ReadRecvErr ==
    /\ dlPC = "read"
    /\ fillPC = "report"
    /\ fillPC' = "done"
    /\ readErr' = fillErr
    /\ readDone' = TRUE
    /\ dlPC' = "readReturned"
    /\ UNCHANGED <<packetLossMax, parentDone, dlErr, chanState, fillErr, fillErrorCount,
                   pending, lastFragmentName, lastFragmentTime, useTimeBasedSorting,
                   fragChan, readErrorCount, downloads, pollErr, emitted, polls, watchVars, auxVars>>

\* ------------------------------------------------------ Watch, HasNewStream
\* config.Channels is a map: the watchers have distinct filters.  Watcher 1
\* has filterChannelID "" (every channel), watcher w > 1 watches channel w - 1.
NoChannel == 0
filterChannelID(w) == w - 1
\* Stream s has UUID s and is broadcast by channel s.
ChannelOf(s) == s
NoStream == 0

\* HasNewStreamResponse{}: HasNewStream is PlaybackURL # NoStream.
NoResponse == [Stream |-> NoStream, User |-> NoStream, PlaybackURL |-> NoStream]

\* GetStreams(ctx, w.filterChannelID, ...): the streams of the filtered channel.
Matching(w) ==
    {s \in Streams : filterChannelID(w) = NoChannel \/ ChannelOf(s) = filterChannelID(w)}

\* One entry of the list: its channel name is still empty ("not_ready"), or
\* what GetUser and GetStreamPlaybackURL do for it.
Validations == {"ok", "user_fail", "url_fail", "not_ready"}

\* The loop over streams in HasNewStream (lines 664-713); res carries
\* stream, getUserResp and playbackURL.
RECURSIVE ScanStreams(_, _, _, _, _)
ScanStreams(streams, res, processing, ignored, val) ==
    IF streams = <<>> THEN res
    ELSE LET s == Head(streams)
             next == IF val[s] = "not_ready" THEN res
                     ELSE IF ChannelOf(s) \in ignored THEN res
                     ELSE IF s \in processing THEN res
                     ELSE IF val[s] = "user_fail" THEN [res EXCEPT !.User = NoStream]
                     ELSE IF val[s] = "url_fail"
                          THEN [res EXCEPT !.User = s, !.PlaybackURL = NoStream]
                     ELSE [Stream |-> s, User |-> s, PlaybackURL |-> s]
         IN  ScanStreams(Tail(streams), next, processing, ignored, val)

\* HasNewStream without the look-up in processingStreams.
HasNewStreamNoSet(streams, processing, ignored, val) ==
    LET res == ScanStreams(streams, NoResponse, {}, ignored, val)
    IN  IF res.PlaybackURL = NoStream THEN NoResponse ELSE res

HasNewStream(streams, processing, ignored, val) ==
    LET res == ScanStreams(streams, NoResponse, processing, ignored, val)
    IN  IF res.PlaybackURL = NoStream THEN NoResponse ELSE res

\* The orders GetStreams can list a set of streams in.
RECURSIVE Orders(_)
Orders(S) ==
    IF S = {} THEN {<<>>}
    ELSE UNION {{<<x>> \o t : t \in Orders(S \ {x})} : x \in S}

\* res, err := w.HasNewStream(ctx), first call or one tick (lines 508-535).
WatchDetect(w, streams, val) ==
    /\ watchPC[w] = "detect"
    /\ dispatched[w] < MaxDispatch
    /\ LET res == HasNewStream(streams, processingStreams[w], ignore[w], val)
       IN  /\ found' = [found EXCEPT ![w] = res]
           /\ watchPC' = [watchPC EXCEPT ![w] =
                             IF res.PlaybackURL = NoStream THEN "detect" ELSE "dispatch"]
    /\ UNCHANGED <<processingStreams, tasks, dispatched, ignore, hlsVars, auxVars>>

\* The stream is added to the set and the recording goroutine starts (lines 545-549).
WatchDispatch(w) ==
    /\ watchPC[w] = "dispatch"
    /\ LET uuid == found[w].Stream
       IN  /\ processingStreams' = [processingStreams EXCEPT ![w] = @ \cup {uuid}]
           /\ tasks' = [tasks EXCEPT ![w][uuid] = @ + 1]
    /\ dispatched' = [dispatched EXCEPT ![w] = @ + 1]
    /\ watchPC' = [watchPC EXCEPT ![w] = "detect"]
    /\ found' = [found EXCEPT ![w] = NoResponse]
    /\ UNCHANGED <<ignore, hlsVars, auxVars>>

\* A recording goroutine ends: the deferred delete (lines 550-554).
TaskReturn(w, uuid) ==
    /\ tasks[w][uuid] > 0
    /\ tasks' = [tasks EXCEPT ![w][uuid] = @ - 1]
    /\ processingStreams' = [processingStreams EXCEPT ![w] = @ \ {uuid}]
    /\ UNCHANGED <<watchPC, found, dispatched, ignore, hlsVars, auxVars>>

\* The recording whose channel state is chanState: its watcher and stream.
Recording == CHOOSE p \in Watchers \X Streams : tasks[p[1]][p[2]] > 0

\* The top of Watch's loop, reached again right after the go statement (lines
\* 493-506): a watcher of one channel sets that channel's state to Idle.
WatchLoopTop(w) ==
    /\ watchPC[w] = "top"
    /\ watchPC' = [watchPC EXCEPT ![w] = "detect"]
    /\ IF filterChannelID(w) # NoChannel /\ filterChannelID(w) = ChannelOf(Recording[2])
       THEN chanState' = "Idle"
       ELSE UNCHANGED chanState
    /\ UNCHANGED <<packetLossMax, parentDone, dlPC, dlErr, fragChan, producerVars,
                   consumerVars, processingStreams, found, tasks, dispatched, ignore,
                   auxVars>>

\* case <-ticker.C of the recording's watcher (lines 518-523): HasNewStream
\* is called again.
WatchTick(w) ==
    /\ watchPC[w] = "detect"
    /\ w = Recording[1]
    /\ ~parentDone
    /\ watchPC' = [watchPC EXCEPT ![w] = "tick"]
    /\ UNCHANGED <<processingStreams, found, tasks, dispatched, ignore, hlsVars, auxVars>>

\* GetStreams lists no other stream (lines 657-661): back to the ticker.
WatchNoStream(w) ==
    /\ watchPC[w] = "tick"
    /\ LET res == HasNewStream(<<>>, processingStreams[w], ignore[w], <<>>)
       IN  /\ res.PlaybackURL = NoStream
           /\ found' = [found EXCEPT ![w] = res]
    /\ watchPC' = [watchPC EXCEPT ![w] = "detect"]
    /\ UNCHANGED <<processingStreams, tasks, dispatched, ignore, hlsVars, auxVars>>

\* ------------------------------------- DownloadLiveStream, Process and Watch
\* IsZeroGetPlaybackURLError matching every GetPlaybackURLError, as errors.As would.
IsAnyGetPlaybackURLError(err) == err \in {"GetPlaybackURLError{}", "playback_url_error"}

\* errors.Is(dlErr, api.GetPlaybackURLError{}) (channel_watcher.go line 924):
\* GetPlaybackURLError has no Is method, so only the zero value matches.
IsZeroGetPlaybackURLError(err) == err = "GetPlaybackURLError{}"

\* What the playback URL, playlists and probe requests can end with.
SetupResults == {"ok", "http_error", "playback_url_error"}

\* The recording goroutine enters Process (lines 549-558, 738-757): the state
\* of the recorded channel becomes PreparingFiles.
ProcessStart ==
    /\ dlPC = "start"
    /\ chanState' = "PreparingFiles"
    /\ dlPC' = "prepare"
    /\ UNCHANGED <<packetLossMax, parentDone, dlErr, fragChan, producerVars, consumerVars,
                   watchVars, auxVars>>

\* Process up to the download step (lines 759-902): the file names, then
\* Downloading.
ProcessPrepare(ok) ==
    /\ dlPC = "prepare"
    /\ IF ok
       THEN /\ chanState' = "Downloading"
            /\ dlPC' = "setup"
            /\ UNCHANGED dlErr
       ELSE /\ dlErr' = "prepare_error"
            /\ dlPC' = "processReturned"
            /\ UNCHANGED chanState
    /\ UNCHANGED <<packetLossMax, parentDone, fragChan, producerVars, consumerVars, watchVars, auxVars>>

\* DownloadLiveStream before Read (livestream.go lines 37-129).
DownloadLiveStreamSetup(r) ==
    /\ dlPC = "setup"
    /\ LET err == IF parentDone THEN "canceled" ELSE r
       IN  IF err = "ok"
           THEN /\ dlPC' = "read"
                /\ UNCHANGED dlErr
           ELSE /\ dlErr' = err
                /\ dlPC' = "dlReturned"
    /\ UNCHANGED <<packetLossMax, parentDone, chanState, fragChan, producerVars,
                   consumerVars, watchVars, auxVars>>

\* DownloadLiveStream after Read returned (livestream.go lines 131-141).
DownloadLiveStreamResult(err) ==
    IF err # "nil" /\ err # "EOF" /\ err # "canceled" THEN err ELSE "nil"

DownloadLiveStreamReturn ==
    /\ dlPC = "readReturned"
    /\ dlErr' = DownloadLiveStreamResult(readErr)
    /\ dlPC' = "dlReturned"
    /\ UNCHANGED <<packetLossMax, parentDone, chanState, fragChan, producerVars,
                   consumerVars, watchVars, auxVars>>

\* Process after DownloadLiveStream (channel_watcher.go lines 922-1053).
ProcessPostProcess ==
    /\ dlPC = "dlReturned"
    /\ IF IsZeroGetPlaybackURLError(dlErr)
       THEN UNCHANGED chanState
       ELSE chanState' = "PostProcessing"
    /\ dlPC' = "processReturned"
    /\ UNCHANGED <<packetLossMax, parentDone, dlErr, fragChan, producerVars, consumerVars,
                   watchVars, auxVars>>

\* The state Watch's task sets from Process's error (lines 563-600).
ReportedState(err) ==
    IF err # "nil"
    THEN IF err = "canceled" THEN "Canceled" ELSE "Error"
    ELSE "Finished"

WatchReport ==
    /\ dlPC = "processReturned"
    /\ chanState' = ReportedState(dlErr)
    /\ dlPC' = "reported"
    /\ UNCHANGED <<packetLossMax, parentDone, dlErr, fragChan, producerVars, consumerVars,
                   watchVars, auxVars>>

\* Shutdown or config reload cancels the context of the watcher and its tasks.
CancelContext ==
    /\ ~parentDone
    /\ dlPC # "reported"
    /\ parentDone' = TRUE
    /\ UNCHANGED <<packetLossMax, dlPC, dlErr, chanState, fragChan, producerVars,
                   consumerVars, watchVars, auxVars>>

\* NewChannelWatcher for every channel of the configuration (lines 475-485).
WatchIdle ==
    /\ processingStreams = [w \in Watchers |-> {}]
    /\ watchPC = [w \in Watchers |-> "detect"]
    /\ found = [w \in Watchers |-> NoResponse]
    /\ tasks = [w \in Watchers |-> [u \in Streams |-> 0]]
    /\ dispatched = [w \in Watchers |-> 0]

\* No channel is ignored.
NoIgnore == [w \in Watchers |-> {}]

\* The versions of the configuration file; NoConfig is the nil *Config.
NoConfig == 0
Configs == 1..MaxConfigs
\* time.After(30 * time.Second) in ConfigReloader, in seconds.
DrainTimeout == 30
\* waitProcessingOrFatal(300 * time.Second), in seconds.
ProcessingTimeout == 300

\* ConfigReloader before any configuration was received (watch_config.go
\* lines 173-176); the file holds its first version.
CfgIdle ==
    /\ fileVersion = 1
    /\ lastModTime = 1
    /\ sending = NoConfig
    /\ reloaderPC = "select"
    /\ newConfig = NoConfig
    /\ current = NoConfig
    /\ handlers = [c \in Configs |-> "none"]
    /\ inflight = [c \in Configs |-> 0]
    /\ activated = <<>>
    /\ drainWrites = {}
    /\ stale = {}
    /\ reloaderWait = 0
    /\ watcherWait = 0
    /\ rootDone = FALSE
    /\ fatal = "none"

\* The delay and multiplier arguments of HasNewStream's retry; the delay is
\* the unit of time.
InitialDelay == 1
Multiplier == 2

\* No retry helper is followed.
TryIdle ==
    /\ tryHelper = "Do"
    /\ tryPC = "idle"
    /\ tryCalls = 0
    /\ tryDelay = InitialDelay
    /\ sleepLeft = 0
    /\ tryErr = "nil"
    /\ tryCtxDone = FALSE

\* HasNewStream is not followed on its own.
DetIdle ==
    /\ detStreams = <<>>
    /\ detVal = <<>>
    /\ detProcessing = {}
    /\ detIgnored = {}
    /\ detPC = "idle"
    /\ detRes = NoResponse

\* No variant; Tries is the tries argument of the probe's try.DoWithResult.
NoVariant == 0
ProbeTries == 5

\* The selection loop of DownloadLiveStream is not followed.
ProbeIdle ==
    /\ acceptable = {}
    /\ ignoredURLs = {}
    /\ probePC = "idle"
    /\ playlist = NoVariant
    /\ playlistFound = FALSE
    /\ probeTries = 0
    /\ probeRounds = 0
    /\ probeResult = "none"

\* No token, no login.
NoToken == 0

\* LoginLoop is not running.
LoginIdle ==
    /\ cachePresent = FALSE
    /\ cacheToken = NoToken
    /\ loginPC = "idle"
    /\ now = 0
    /\ nextRefresh = 0
    /\ refreshErr = "none"
    /\ refreshFailures = 0
    /\ creds = NoToken
    /\ loginErr = "none"

\* GetPlaylists is not running.
GpIdle ==
    /\ playlistRetries = 0
    /\ count = 0
    /\ gpPC = "idle"
    /\ responses = <<>>
    /\ lastHTTPError = 0
    /\ gpErr = [kind |-> "none", Status |-> 0]
    /\ gpPlaylists = FALSE

\* No recording prepares a file.
FileIdle ==
    /\ files = {}
    /\ filePC = <<>>
    /\ fName = <<>>
    /\ title = <<>>

\* Process is not post-processing.
PpIdle ==
    /\ params = <<>>
    /\ ppPC = "idle"
    /\ ppDlErr = "nil"
    /\ probeErr = FALSE
    /\ remuxErr = FALSE
    /\ extractAudioErr = FALSE
    /\ rawExists = FALSE
    /\ removedBy = "none"
    /\ ppResult = "none"

\* DownloadChat is not running.
ChatIdle ==
    /\ chatCtxDone = FALSE
    /\ initPC = "idle"
    /\ subscribers = 0
    /\ wsSent = <<>>
    /\ received = {}
    /\ wsPC = "idle"
    /\ commentsCh = 0
    /\ writerPC = "idle"
    /\ chatErr = "none"

\* GetBestPlaylist is not followed.
BpIdle ==
    /\ bpStreams = <<>>
    /\ bpConstraints = <<>>
    /\ bpPC = "idle"
    /\ bpBest = <<>>
    /\ bpFound = FALSE

\* No Set is in use.
SetIdle ==
    /\ items = {}
    /\ mu = <<>>
    /\ setPC = <<>>
    /\ setOp = <<>>
    /\ setLocal = <<>>
    /\ setLog = <<>>
    /\ setRet = <<>>
    /\ setOps = 0

\* fillQueue is not followed against the clock.
IdleRuleIdle ==
    /\ clock = 0
    /\ lastFragmentReceivedTimestamp = 0
    /\ idlePC = "idle"
    /\ nNew = 0
    /\ queued = 0
    /\ blocked = 0
    /\ idleErr = "none"

\* The go statement of ConfigReloader is not followed.
GoIdle ==
    /\ ctxDone = FALSE
    /\ configContext = 0
    /\ cancelled = {}
    /\ reloadPC = "idle"
    /\ reloads = 0
    /\ goPC = <<>>
    /\ handlerCtx = <<>>

\* UnmarshalV4 is not followed.
SioIdle ==
    /\ sioData = <<>>
    /\ sioPC = "idle"
    /\ sioResult = <<>>

LibIdle == ChatIdle /\ BpIdle /\ SetIdle /\ IdleRuleIdle /\ GoIdle /\ SioIdle

ExtIdle == LoginIdle /\ GpIdle /\ FileIdle /\ PpIdle /\ LibIdle

AuxIdle == CfgIdle /\ TryIdle /\ DetIdle /\ ProbeIdle /\ ExtIdle

Init ==
    /\ packetLossMax \in 0..MaxPacketLossMax
    /\ parentDone = FALSE
    /\ readDone = FALSE
    /\ dlPC = "prepare"
    /\ dlErr = "nil"
    /\ chanState = "PreparingFiles"
    /\ fillPC = "poll"
    /\ fillErr = "nil"
    /\ fillErrorCount = 0
    /\ pending = <<>>
    /\ lastFragmentName = NoName
    /\ lastFragmentTime = NoTime
    /\ useTimeBasedSorting = TRUE
    /\ fragChan = <<>>
    /\ readErrorCount = 0
    /\ readErr = "nil"
    /\ downloads = <<>>
    /\ pollErr = "nil"
    /\ emitted = <<>>
    /\ polls = <<>>
    /\ AuxIdle
    /\ WatchIdle
    /\ ignore = NoIgnore

Next ==
    \/ \E ok \in BOOLEAN : ProcessPrepare(ok)
    \/ \E r \in SetupResults : DownloadLiveStreamSetup(r)
    \/ \E e \in PollErrors : FillQueuePollError(e)
    \/ \E lines \in DatedPlaylists, timedOut \in BOOLEAN : FillQueuePoll(lines, timedOut)
    \/ \E timedOut \in BOOLEAN : FillQueueSend(timedOut)
    \/ \E r \in DownloadResults : ReadRecvFrag(r)
    \/ ReadRecvErr
    \/ DownloadLiveStreamReturn
    \/ ProcessPostProcess
    \/ WatchReport
    \/ CancelContext

Spec == Init /\ [][Next]_vars

\* The steps of Read and of the fillQueue goroutine it starts.
ReadStep ==
    \/ \E e \in PollErrors : FillQueuePollError(e)
    \/ \E lines \in DatedPlaylists, timedOut \in BOOLEAN : FillQueuePoll(lines, timedOut)
    \/ \E timedOut \in BOOLEAN : FillQueueSend(timedOut)
    \/ \E r \in DownloadResults : ReadRecvFrag(r)
    \/ ReadRecvErr

\* Both goroutines keep running and every request is answered.
SpecFair == Spec /\ WF_vars(ReadStep)

\* fillQueue alone, against every playlist: Read has started it and nothing
\* cancels the context.
InitFill ==
    /\ packetLossMax \in 0..MaxPacketLossMax
    /\ parentDone = FALSE
    /\ readDone = FALSE
    /\ dlPC = "read"
    /\ dlErr = "nil"
    /\ chanState = "Downloading"
    /\ fillPC = "poll"
    /\ fillErr = "nil"
    /\ fillErrorCount = 0
    /\ pending = <<>>
    /\ lastFragmentName = NoName
    /\ lastFragmentTime = NoTime
    /\ useTimeBasedSorting = TRUE
    /\ fragChan = <<>>
    /\ readErrorCount = 0
    /\ readErr = "nil"
    /\ downloads = <<>>
    /\ pollErr = "nil"
    /\ emitted = <<>>
    /\ polls = <<>>
    /\ AuxIdle
    /\ WatchIdle
    /\ ignore = NoIgnore

NextFill ==
    \/ \E e \in PollErrors : FillQueuePollError(e)
    \/ \E lines \in Playlists, timedOut \in BOOLEAN : FillQueuePoll(lines, timedOut)
    \/ \E timedOut \in BOOLEAN : FillQueueSend(timedOut)

SpecFill == InitFill /\ [][NextFill]_vars

\* The watchers of one configuration; their recordings are opaque tasks.  Only
\* the watcher of every channel is given an ignore list.
InitWatch ==
    /\ packetLossMax = 0
    /\ parentDone = FALSE
    /\ readDone = FALSE
    /\ dlPC = "idle"
    /\ dlErr = "nil"
    /\ chanState = "Idle"
    /\ fillPC = "idle"
    /\ fillErr = "nil"
    /\ fillErrorCount = 0
    /\ pending = <<>>
    /\ lastFragmentName = NoName
    /\ lastFragmentTime = NoTime
    /\ useTimeBasedSorting = TRUE
    /\ fragChan = <<>>
    /\ readErrorCount = 0
    /\ readErr = "nil"
    /\ downloads = <<>>
    /\ pollErr = "nil"
    /\ emitted = <<>>
    /\ polls = <<>>
    /\ AuxIdle
    /\ WatchIdle
    /\ ignore \in {ig \in [Watchers -> SUBSET Streams] :
                      \A w \in Watchers : filterChannelID(w) # NoChannel => ig[w] = {}}

NextWatch ==
    \/ \E w \in Watchers :
          \E live \in SUBSET Matching(w) :
             \E streams \in Orders(live), val \in [live -> Validations] :
                WatchDetect(w, streams, val)
    \/ \E w \in Watchers : WatchDispatch(w)
    \/ \E w \in Watchers, uuid \in Streams : TaskReturn(w, uuid)

SpecWatch == InitWatch /\ [][NextWatch]_vars

\* Watcher w has just started the recording goroutine of stream uuid.
Dispatched(w, uuid) ==
    /\ processingStreams = [v \in Watchers |-> IF v = w THEN {uuid} ELSE {}]
    /\ tasks = [v \in Watchers |-> [u \in Streams |-> IF v = w /\ u = uuid THEN 1 ELSE 0]]
    /\ watchPC = [v \in Watchers |-> IF v = w THEN "top" ELSE "detect"]
    /\ found = [v \in Watchers |-> NoResponse]
    /\ dispatched = [v \in Watchers |-> IF v = w THEN 1 ELSE 0]

\* One recording from the go statement on, beside its watcher's loop.  The
\* stream's playlist lists one fragment.
InitChannel ==
    /\ packetLossMax \in 0..MaxPacketLossMax
    /\ parentDone = FALSE
    /\ readDone = FALSE
    /\ dlPC = "start"
    /\ dlErr = "nil"
    /\ chanState = "Idle"
    /\ fillPC = "poll"
    /\ fillErr = "nil"
    /\ fillErrorCount = 0
    /\ pending = <<>>
    /\ lastFragmentName = NoName
    /\ lastFragmentTime = NoTime
    /\ useTimeBasedSorting = TRUE
    /\ fragChan = <<>>
    /\ readErrorCount = 0
    /\ readErr = "nil"
    /\ downloads = <<>>
    /\ pollErr = "nil"
    /\ emitted = <<>>
    /\ polls = <<>>
    /\ AuxIdle
    /\ \E w \in Watchers : \E uuid \in Matching(w) : Dispatched(w, uuid)
    /\ ignore = NoIgnore

\* The steps of the recording goroutine.
RecordingStep ==
    \/ ProcessStart
    \/ \E ok \in BOOLEAN : ProcessPrepare(ok)
    \/ \E r \in SetupResults : DownloadLiveStreamSetup(r)
    \/ \E e \in PollErrors : FillQueuePollError(e)
    \/ \E timedOut \in BOOLEAN : FillQueuePoll(Window(1, 1), timedOut)
    \/ \E timedOut \in BOOLEAN : FillQueueSend(timedOut)
    \/ \E r \in DownloadResults : ReadRecvFrag(r)
    \/ ReadRecvErr
    \/ DownloadLiveStreamReturn
    \/ ProcessPostProcess
    \/ WatchReport

\* The steps of the watcher's loop.
WatchStep ==
    \/ \E w \in Watchers : WatchLoopTop(w)
    \/ \E w \in Watchers : WatchTick(w)
    \/ \E w \in Watchers : WatchNoStream(w)

NextChannel ==
    \/ RecordingStep
    \/ WatchStep
    \/ CancelContext

SpecChannel == InitChannel /\ [][NextChannel]_vars

\* Both goroutines are scheduled; nothing obliges a shutdown or a reload.
SpecChannelFair ==
    /\ SpecChannel
    /\ WF_vars(RecordingStep)
    /\ WF_vars(WatchStep)

\* ------------------------------------- ObserveConfig, ConfigReloader
\* No recording engine and no watcher loop is followed.
EngineIdle ==
    /\ packetLossMax = 0
    /\ parentDone = FALSE
    /\ readDone = FALSE
    /\ dlPC = "idle"
    /\ dlErr = "nil"
    /\ chanState = "Idle"
    /\ fillPC = "idle"
    /\ fillErr = "nil"
    /\ fillErrorCount = 0
    /\ pending = <<>>
    /\ lastFragmentName = NoName
    /\ lastFragmentTime = NoTime
    /\ useTimeBasedSorting = TRUE
    /\ fragChan = <<>>
    /\ readErrorCount = 0
    /\ readErr = "nil"
    /\ downloads = <<>>
    /\ pollErr = "nil"
    /\ emitted = <<>>
    /\ polls = <<>>

\* What the configuration goroutines leave alone.
notCfgVars == <<hlsVars, watchVars, tryVars, detVars, probeVars, extVars>>

\* The file is written again.  A version written while ConfigReloader drains
\* makes the versions written earlier in that drain stale.
WriteConfig ==
    /\ fatal = "none"
    /\ fileVersion < MaxConfigs
    /\ fileVersion' = fileVersion + 1
    /\ IF reloaderPC = "drain"
       THEN /\ stale' = stale \cup drainWrites
            /\ drainWrites' = drainWrites \cup {fileVersion + 1}
       ELSE UNCHANGED <<stale, drainWrites>>
    /\ UNCHANGED <<lastModTime, sending, reloaderPC, newConfig, current, handlers, inflight,
                   activated, reloaderWait, watcherWait, rootDone, fatal, notCfgVars>>

\* loadConfigOnModification up to the send (watch_config.go lines 139-153),
\* on a tick or a file event; ok is whether loadConfig succeeds.
ObserverLoad(ok) ==
    /\ fatal = "none"
    /\ ~rootDone
    /\ sending = NoConfig
    /\ fileVersion # lastModTime
    /\ lastModTime' = fileVersion
    /\ sending' = IF ok THEN fileVersion ELSE NoConfig
    /\ UNCHANGED <<fileVersion, reloaderPC, newConfig, current, handlers, inflight, activated,
                   drainWrites, stale, reloaderWait, watcherWait, rootDone, fatal, notCfgVars>>

\* case <-ctx.Done() of the send (lines 157-161); the send of the initial
\* load (line 82) has no such case.
ObserverAbort ==
    /\ fatal = "none"
    /\ rootDone
    /\ sending \notin {NoConfig, 1}
    /\ sending' = NoConfig
    /\ UNCHANGED <<fileVersion, lastModTime, reloaderPC, newConfig, current, handlers,
                   inflight, activated, drainWrites, stale, reloaderWait, watcherWait,
                   rootDone, fatal, notCfgVars>>

\* The context of config c's handler is cancelled: its watchers leave their
\* loops for waitProcessingOrFatal (channel_watcher.go lines 519-541).
CancelHandler(c) == [handlers EXCEPT ![c] = IF @ = "running" THEN "draining" ELSE @]
CancelClock(c) == IF handlers[c] = "running" THEN 0 ELSE watcherWait

\* go handleConfig(configContext, newConfig) (watch_config.go lines 190-195);
\* configContext derives from the root context.
StartHandler(h, c) == [h EXCEPT ![c] = IF rootDone THEN "draining" ELSE "running"]

\* case newConfig := <-configChan (lines 180-195).
ReloaderRecv ==
    /\ fatal = "none"
    /\ reloaderPC = "select"
    /\ sending # NoConfig
    /\ sending' = NoConfig
    /\ IF current # NoConfig
       THEN /\ handlers' = CancelHandler(current)
            /\ watcherWait' = CancelClock(current)
            /\ newConfig' = sending
            /\ reloaderPC' = "drain"
            /\ drainWrites' = {}
            /\ UNCHANGED <<current, activated>>
       ELSE /\ handlers' = StartHandler(handlers, sending)
            /\ current' = sending
            /\ activated' = Append(activated, sending)
            /\ watcherWait' = 0
            /\ UNCHANGED <<newConfig, reloaderPC, drainWrites>>
    /\ reloaderWait' = 0
    /\ UNCHANGED <<fileVersion, lastModTime, inflight, stale, rootDone, fatal, notCfgVars>>

\* HandlerDone true whatever the handler does.
HandlerDoneAlways(st) == TRUE

\* doneChan <- struct{}{} is ready: handleConfig has returned (lines 193-194).
HandlerDone(st) == st = "returned"

\* case <-doneChan of the drain (lines 183-185), then the new handler starts.
ReloaderDrained ==
    /\ fatal = "none"
    /\ reloaderPC = "drain"
    /\ HandlerDone(handlers[current])
    /\ handlers' = StartHandler([handlers EXCEPT ![current] =
                                    IF @ = "returned" THEN "ended" ELSE @], newConfig)
    /\ current' = newConfig
    /\ activated' = Append(activated, newConfig)
    /\ newConfig' = NoConfig
    /\ reloaderPC' = "select"
    /\ reloaderWait' = 0
    /\ watcherWait' = IF handlers[current] = "returned" THEN 0 ELSE watcherWait
    /\ UNCHANGED <<fileVersion, lastModTime, sending, inflight, drainWrites, stale, rootDone,
                   fatal, notCfgVars>>

\* case <-ctx.Done() of ConfigReloader (lines 196-208).
ReloaderShutdown ==
    /\ fatal = "none"
    /\ reloaderPC = "select"
    /\ rootDone
    /\ reloaderPC' = "shutdown"
    /\ reloaderWait' = 0
    /\ UNCHANGED <<fileVersion, lastModTime, sending, newConfig, current, handlers, inflight,
                   activated, drainWrites, stale, watcherWait, rootDone, fatal, notCfgVars>>

\* case <-doneChan of the shutdown (lines 204-211).
ReloaderExit ==
    /\ fatal = "none"
    /\ reloaderPC = "shutdown"
    /\ current # NoConfig
    /\ HandlerDone(handlers[current])
    /\ handlers' = [handlers EXCEPT ![current] = "ended"]
    /\ reloaderPC' = "exited"
    /\ UNCHANGED <<fileVersion, lastModTime, sending, newConfig, current, inflight, activated,
                   drainWrites, stale, reloaderWait, watcherWait, rootDone, fatal, notCfgVars>>

\* case <-time.After(30 * time.Second) (lines 186-187 and 206-207).
ReloaderTimeoutDue ==
    reloaderPC \in {"drain", "shutdown"} /\ reloaderWait >= DrainTimeout

ReloaderFatal ==
    /\ fatal = "none"
    /\ ReloaderTimeoutDue
    /\ fatal' = "reloader"
    /\ UNCHANGED <<fileVersion, lastModTime, sending, reloaderPC, newConfig, current,
                   handlers, inflight, activated, drainWrites, stale, reloaderWait,
                   watcherWait, rootDone, notCfgVars>>

\* The signal handler, or the caller of ConfigReloader, cancels the root context.
RootCancel ==
    /\ fatal = "none"
    /\ ~rootDone
    /\ rootDone' = TRUE
    /\ IF current # NoConfig
       THEN /\ handlers' = CancelHandler(current)
            /\ watcherWait' = CancelClock(current)
       ELSE UNCHANGED <<handlers, watcherWait>>
    /\ UNCHANGED <<fileVersion, lastModTime, sending, reloaderPC, newConfig, current, inflight,
                   activated, drainWrites, stale, reloaderWait, fatal, notCfgVars>>

\* LoginLoop fails and handleConfig cancels its own context
\* (watch_command.go lines 255-266).
LoginFailed(c) ==
    /\ fatal = "none"
    /\ handlers[c] = "running"
    /\ handlers' = CancelHandler(c)
    /\ watcherWait' = 0
    /\ UNCHANGED <<fileVersion, lastModTime, sending, reloaderPC, newConfig, current, inflight,
                   activated, drainWrites, stale, reloaderWait, rootDone, fatal, notCfgVars>>

\* A watcher of config c starts a recording (channel_watcher.go lines 545-549).
RecordingStart(c) ==
    /\ fatal = "none"
    /\ handlers[c] = "running"
    /\ inflight[c] < MaxInflight
    /\ inflight' = [inflight EXCEPT ![c] = @ + 1]
    /\ UNCHANGED <<fileVersion, lastModTime, sending, reloaderPC, newConfig, current, handlers,
                   activated, drainWrites, stale, reloaderWait, watcherWait, rootDone, fatal,
                   notCfgVars>>

\* A recording of config c ends, post-processing included (lines 550-554).
RecordingEnd(c) ==
    /\ fatal = "none"
    /\ inflight[c] > 0
    /\ inflight' = [inflight EXCEPT ![c] = @ - 1]
    /\ UNCHANGED <<fileVersion, lastModTime, sending, reloaderPC, newConfig, current, handlers,
                   activated, drainWrites, stale, reloaderWait, watcherWait, rootDone, fatal,
                   notCfgVars>>

\* waitProcessingOrFatal finds no recording in flight (lines 616-621), Watch
\* returns and so does handleConfig's wg.Wait() (watch_command.go line 343).
HandlerReturn(c) ==
    /\ fatal = "none"
    /\ handlers[c] = "draining"
    /\ inflight[c] = 0
    /\ handlers' = [handlers EXCEPT ![c] = "returned"]
    /\ UNCHANGED <<fileVersion, lastModTime, sending, reloaderPC, newConfig, current, inflight,
                   activated, drainWrites, stale, reloaderWait, watcherWait, rootDone, fatal,
                   notCfgVars>>

\* case <-ctx.Done() of waitProcessingOrFatal (channel_watcher.go lines 623-624).
WatcherTimeoutDue ==
    \E c \in Configs :
       handlers[c] = "draining" /\ inflight[c] > 0 /\ watcherWait >= ProcessingTimeout

WatcherFatal ==
    /\ fatal = "none"
    /\ WatcherTimeoutDue
    /\ fatal' = "watcher"
    /\ UNCHANGED <<fileVersion, lastModTime, sending, reloaderPC, newConfig, current,
                   handlers, inflight, activated, drainWrites, stale, reloaderWait,
                   watcherWait, rootDone, notCfgVars>>

\* DrainTimeout seconds pass while somebody waits; a timer that is due fires
\* before more time passes.
Tick ==
    /\ fatal = "none"
    /\ ~ReloaderTimeoutDue
    /\ ~WatcherTimeoutDue
    /\ LET waiting == reloaderPC \in {"drain", "shutdown"}
           draining == \E c \in Configs : handlers[c] = "draining"
       IN  /\ waiting \/ (draining /\ watcherWait < ProcessingTimeout)
           /\ reloaderWait' = IF waiting THEN reloaderWait + DrainTimeout ELSE reloaderWait
           /\ watcherWait' = IF draining /\ watcherWait < ProcessingTimeout
                             THEN watcherWait + DrainTimeout ELSE watcherWait
    /\ UNCHANGED <<fileVersion, lastModTime, sending, reloaderPC, newConfig, current, handlers,
                   inflight, activated, drainWrites, stale, rootDone, fatal, notCfgVars>>

\* ObserveConfig is blocked sending the initial configuration (lines 67-83).
InitConfig ==
    /\ EngineIdle
    /\ WatchIdle
    /\ ExtIdle
    /\ ignore = NoIgnore
    /\ fileVersion = 1
    /\ lastModTime = 1
    /\ sending = 1
    /\ reloaderPC = "select"
    /\ newConfig = NoConfig
    /\ current = NoConfig
    /\ handlers = [c \in Configs |-> "none"]
    /\ inflight = [c \in Configs |-> 0]
    /\ activated = <<>>
    /\ drainWrites = {}
    /\ stale = {}
    /\ reloaderWait = 0
    /\ watcherWait = 0
    /\ rootDone = FALSE
    /\ fatal = "none"
    /\ TryIdle
    /\ DetIdle
    /\ ProbeIdle

NextConfig ==
    \/ WriteConfig
    \/ \E ok \in BOOLEAN : ObserverLoad(ok)
    \/ ObserverAbort
    \/ ReloaderRecv
    \/ ReloaderDrained
    \/ ReloaderShutdown
    \/ ReloaderExit
    \/ ReloaderFatal
    \/ RootCancel
    \/ \E c \in Configs : LoginFailed(c)
    \/ \E c \in Configs : RecordingStart(c)
    \/ \E c \in Configs : RecordingEnd(c)
    \/ \E c \in Configs : HandlerReturn(c)
    \/ WatcherFatal
    \/ Tick

SpecConfig == InitConfig /\ [][NextConfig]_vars

\* -------------------------------------------------------------- package try
notTryVars == <<hlsVars, watchVars, cfgVars, detVars, probeVars, extVars>>

Helpers == {"Do", "DoExponentialBackoff", "DoWithResult", "DoExponentialBackoffWithResult"}

\* delay = min(delay*multiplier, maxBackoff) in the two backoff helpers.
Exponential(h) == h \in {"DoExponentialBackoff", "DoExponentialBackoffWithResult"}
NextDelay(h, delay) ==
    IF Exponential(h)
    THEN IF delay * Multiplier < MaxBackoff THEN delay * Multiplier ELSE MaxBackoff
    ELSE delay

\* The helpers with a result: fn func() (T, error).
ReturnsResult(h) == h \in {"DoWithResult", "DoExponentialBackoffWithResult"}

\* StopsOnCanceled with no helper testing the error.
StopsOnCanceledNever(h) == FALSE

\* if errors.Is(err, context.Canceled) { return result, err } (try.go lines
\* 89-91 and 116-118); Do and DoExponentialBackoff have no such test.
StopsOnCanceled(h) == ReturnsResult(h)

\* One turn of the loop up to time.Sleep: fn is called; under a cancelled
\* context it fails with context.Canceled.
TryCall(r) ==
    /\ tryPC = "call"
    /\ LET err == IF tryCtxDone THEN "canceled" ELSE r
       IN  /\ tryErr' = err
           /\ tryCalls' = tryCalls + 1
           /\ IF err = "nil" \/ (err = "canceled" /\ StopsOnCanceled(tryHelper))
              THEN /\ tryPC' = "returned"
                   /\ UNCHANGED sleepLeft
              ELSE /\ tryPC' = "sleep"
                   /\ sleepLeft' = tryDelay
    /\ UNCHANGED <<tryHelper, tryDelay, tryCtxDone, notTryVars>>

\* A unit of time passes in time.Sleep(delay).
TrySleep ==
    /\ tryPC = "sleep"
    /\ sleepLeft > 0
    /\ sleepLeft' = sleepLeft - 1
    /\ UNCHANGED <<tryHelper, tryPC, tryCalls, tryDelay, tryErr, tryCtxDone, notTryVars>>

\* time.Sleep returns: the next delay, then the next try or, after the last
\* one, the return of the last error.
TryWake ==
    /\ tryPC = "sleep"
    /\ sleepLeft = 0
    /\ tryDelay' = NextDelay(tryHelper, tryDelay)
    /\ tryPC' = IF tryCalls < MaxTries THEN "call" ELSE "returned"
    /\ UNCHANGED <<tryHelper, tryCalls, sleepLeft, tryErr, tryCtxDone, notTryVars>>

\* The context of the caller is cancelled.
TryCancel ==
    /\ ~tryCtxDone
    /\ tryPC # "returned"
    /\ tryCtxDone' = TRUE
    /\ UNCHANGED <<tryHelper, tryPC, tryCalls, tryDelay, sleepLeft, tryErr, notTryVars>>

\* A helper is called with tries = MaxTries and delay = InitialDelay.
InitTry ==
    /\ EngineIdle
    /\ WatchIdle
    /\ ExtIdle
    /\ ignore = NoIgnore
    /\ CfgIdle
    /\ tryHelper \in Helpers
    /\ tryPC = "call"
    /\ tryCalls = 0
    /\ tryDelay = InitialDelay
    /\ sleepLeft = 0
    /\ tryErr = "nil"
    /\ tryCtxDone = FALSE
    /\ DetIdle
    /\ ProbeIdle

NextTry ==
    \/ \E r \in {"nil", "error"} : TryCall(r)
    \/ TrySleep
    \/ TryWake
    \/ TryCancel

SpecTry == InitTry /\ [][NextTry]_vars

\* ------------------------------------------------------- HasNewStream alone
notDetVars == <<hlsVars, watchVars, cfgVars, tryVars, probeVars, extVars>>

\* The closure of HasNewStream runs once on the list GetStreams returned.
Detect ==
    /\ detPC = "call"
    /\ detRes' = HasNewStream(detStreams, detProcessing, detIgnored, detVal)
    /\ detPC' = "done"
    /\ UNCHANGED <<detStreams, detVal, detProcessing, detIgnored, notDetVars>>

\* Every list of distinct streams, every outcome for its entries, every set
\* of streams in flight and of ignored channels.
InitDetect ==
    /\ EngineIdle
    /\ WatchIdle
    /\ ExtIdle
    /\ ignore = NoIgnore
    /\ CfgIdle
    /\ TryIdle
    /\ ProbeIdle
    /\ \E live \in SUBSET Streams :
          /\ detStreams \in Orders(live)
          /\ detVal \in [live -> Validations]
    /\ detProcessing \in SUBSET Streams
    /\ detIgnored \in SUBSET Streams
    /\ detPC = "call"
    /\ detRes = NoResponse

NextDetect == Detect

SpecDetect == InitDetect /\ [][NextDetect]_vars

\* --------------------------------- DownloadLiveStream: choice of the variant
notProbeVars == <<hlsVars, watchVars, cfgVars, tryVars, detVars, extVars>>

\* The variants of the master playlist, best first.
Variants == 1..NumVariants

\* api.GetBestPlaylist(playlists, constraint): the best variant that satisfies
\* the constraint and is not in constraint.Ignored, and whether there is one.
GetBestPlaylist(ok, ignored) ==
    LET candidates == ok \ ignored
    IN  IF candidates = {}
        THEN [best |-> NoVariant, found |-> FALSE]
        ELSE [best |-> CHOOSE v \in candidates : \A u \in candidates : v <= u,
              found |-> TRUE]

\* The head of one round (livestream.go lines 63-79): without a playlist for
\* the constraint the first one is taken.
ProbeSelect ==
    /\ probePC = "select"
    /\ LET res == GetBestPlaylist(acceptable, ignoredURLs)
       IN  /\ playlistFound' = res.found
           /\ playlist' = IF res.found THEN res.best ELSE 1
    /\ probePC' = "probe"
    /\ probeTries' = 0
    /\ probeRounds' = IF probeRounds < MaxProbeRounds THEN probeRounds + 1 ELSE probeRounds
    /\ UNCHANGED <<acceptable, ignoredURLs, probeResult, notProbeVars>>

\* Breaks (lines 88-95) whatever the probe said.
AcceptedAlways(ok, res) == TRUE

\* if ok { ... break } (lines 88-95): this ok is the one of line 64, the ok of
\* line 81 being local to its if statement.
Accepted(ok, res) == ok

\* try.DoWithResult(5, 5*time.Second, Probe) has returned res (lines 81-95).
ProbeEnd(res) ==
    /\ probeResult' = res
    /\ ignoredURLs' = IF res # "ok" THEN ignoredURLs \cup {playlist} ELSE ignoredURLs
    /\ probePC' = IF Accepted(playlistFound, res) THEN "accepted" ELSE "select"
    /\ UNCHANGED probeTries

\* One call of Probe (hls_downloader.go lines 540-590): 2xx is (true, nil),
\* 404 is (false, nil), which DoWithResult returns at once, anything else is
\* an error, which it retries.
ProbeAttempt(r) ==
    /\ probePC = "probe"
    /\ IF r = "error" /\ probeTries + 1 < ProbeTries
       THEN /\ probeTries' = probeTries + 1
            /\ UNCHANGED <<ignoredURLs, probePC, probeResult>>
       ELSE ProbeEnd(r)
    /\ UNCHANGED <<acceptable, playlist, playlistFound, probeRounds, notProbeVars>>

\* GetPlaylists has returned a non-empty list (livestream.go lines 46-61).
InitProbe ==
    /\ EngineIdle
    /\ WatchIdle
    /\ ExtIdle
    /\ ignore = NoIgnore
    /\ CfgIdle
    /\ TryIdle
    /\ DetIdle
    /\ acceptable \in SUBSET Variants
    /\ ignoredURLs = {}
    /\ probePC = "select"
    /\ playlist = NoVariant
    /\ playlistFound = FALSE
    /\ probeTries = 0
    /\ probeRounds = 0
    /\ probeResult = "none"

NextProbe ==
    \/ ProbeSelect
    \/ \E r \in {"ok", "not_ready", "error"} : ProbeAttempt(r)

SpecProbe == InitProbe /\ [][NextProbe]_vars

\* The goroutine of DownloadLiveStream keeps running; every probe is answered.
SpecProbeFair == SpecProbe /\ WF_vars(NextProbe)

\* ------------------------------------------ Client.Login, Client.LoginLoop
notLoginVars == <<hlsVars, watchVars, cfgVars, tryVars, detVars, probeVars, gpVars, fileVars,
                  ppVars, libVars>>

\* date.Add(-5 * time.Minute): the refresh comes 5 minutes before the expiry.
RefreshMargin == 5
\* ticker.Reset(5 * time.Minute) after a Login that failed.
RetryDelay == 5
\* clearCredentialCacheOnFailureAfter: 10 in the configuration of the README.
ClearCacheAfter == 10

\* Minutes a token lives after the login that issued it; a token is named by
\* the minute it expires.
Lifetimes == {5, 10, 15}

\* What LoginWithRefreshToken can answer other than a new token pair.
RefreshErrors == {"unauthorized", "maintenance", "http502", "http503", "http504"}

\* FileCache.Get: the record of the file, or the zero value with an error.
CacheGet(present, token) ==
    IF present THEN [Token |-> token, err |-> FALSE] ELSE [Token |-> NoToken, err |-> TRUE]

\* FileCache.Set: it reads the current record first and returns the error of
\* that read, so that nothing is written when the file does not exist.
CacheSet(present, token, new) ==
    IF CacheGet(present, token).err
    THEN [present |-> present, Token |-> token, err |-> TRUE]
    ELSE [present |-> TRUE, Token |-> new, err |-> FALSE]

\* FileCache.Invalidate: os.Remove of the file.
CacheInvalidate == [present |-> FALSE, Token |-> NoToken]

\* Credentials.GetExpirationTime: the exp claim of the token; a token without
\* one is an error.
GetExpirationTime(token) == [date |-> token, err |-> token = NoToken]

\* Client.Login at minute t: r is what LoginWithRefreshToken answers, rd what
\* loginWithReader does, life the lifetime of a token issued now.  A cache
\* with a token is refreshed; when that fails the cache is invalidated and
\* the credentials of the reader are used, as they are without a cached
\* token.  loginWithReader runs on a cache without a file only, where its own
\* Set (line 206) writes nothing.
Login(t, r, rd, life) ==
    LET cached == CacheGet(cachePresent, cacheToken)
        refreshed == cached.Token # NoToken
        cache1 == IF refreshed /\ r # "ok"
                  THEN CacheInvalidate
                  ELSE [present |-> cachePresent, Token |-> cacheToken]
        failed == (~refreshed \/ r # "ok") /\ rd # "ok"
        set == CacheSet(cache1.present, cache1.Token, t + life)
    IN  [err |-> failed,
         present |-> IF failed THEN cache1.present ELSE set.present,
         Token |-> IF failed THEN cache1.Token ELSE set.Token,
         creds |-> IF failed THEN NoToken ELSE t + life,
         refreshErr |-> IF refreshed THEN r ELSE "none"]

\* The effect of one Login on the state, and the ticker armed after it (lines
\* 641-653 and 671-680): the expiry is read back from the cache; an error of
\* GetExpirationTime panics, as does a ticker of a non-positive period.
AfterLogin(t, res) ==
    /\ cachePresent' = res.present
    /\ cacheToken' = res.Token
    /\ refreshErr' = res.refreshErr
    /\ refreshFailures' = IF res.refreshErr = "none" THEN refreshFailures
                          ELSE IF res.refreshErr = "ok" THEN 0
                          ELSE refreshFailures + 1
    /\ creds' = res.creds
    /\ loginErr' = IF res.err THEN "failed" ELSE "nil"
    /\ now' = t

Arm(t, res) ==
    LET exp == GetExpirationTime(CacheGet(res.present, res.Token).Token)
    IN  IF exp.err \/ exp.date - RefreshMargin - t <= 0
        THEN /\ loginPC' = "panicked"
             /\ UNCHANGED nextRefresh
        ELSE /\ loginPC' = "waiting"
             /\ nextRefresh' = exp.date - RefreshMargin

\* The first Login of LoginLoop (lines 636-654): its failure ends LoginLoop.
LoginLoopStart(r, rd, life) ==
    /\ loginPC = "start"
    /\ LET res == Login(now, r, rd, life)
       IN  /\ AfterLogin(now, res)
           /\ IF res.err
              THEN /\ loginPC' = "returned"
                   /\ UNCHANGED nextRefresh
              ELSE Arm(now, res)
    /\ UNCHANGED notLoginVars

\* case <-ticker.C (lines 661-680): after a failure the next try comes in 5
\* minutes.
LoginLoopTick(r, rd, life) ==
    /\ loginPC = "waiting"
    /\ nextRefresh <= MaxTime
    /\ LET res == Login(nextRefresh, r, rd, life)
       IN  /\ AfterLogin(nextRefresh, res)
           /\ IF res.err
              THEN /\ loginPC' = "waiting"
                   /\ nextRefresh' = nextRefresh + RetryDelay
              ELSE Arm(nextRefresh, res)
    /\ UNCHANGED notLoginVars

\* case <-ctx.Done() (lines 658-660).
LoginLoopCancel ==
    /\ loginPC = "waiting"
    /\ loginPC' = "returned"
    /\ UNCHANGED <<cachePresent, cacheToken, now, nextRefresh, refreshErr, refreshFailures,
                   creds, loginErr, notLoginVars>>

\* LoginLoop starts with a cache left by an earlier run, or without one.
InitLogin ==
    /\ EngineIdle
    /\ WatchIdle
    /\ ignore = NoIgnore
    /\ CfgIdle /\ TryIdle /\ DetIdle /\ ProbeIdle
    /\ GpIdle /\ FileIdle /\ PpIdle /\ LibIdle
    /\ cachePresent \in BOOLEAN
    /\ cacheToken \in (IF cachePresent THEN Lifetimes ELSE {NoToken})
    /\ loginPC = "start"
    /\ now = 0
    /\ nextRefresh = 0
    /\ refreshErr = "none"
    /\ refreshFailures = 0
    /\ creds = NoToken
    /\ loginErr = "none"

NextLogin ==
    \/ \E r \in {"ok"} \cup RefreshErrors : \E rd \in {"ok", "failed"} : \E life \in Lifetimes :
          LoginLoopStart(r, rd, life)
    \/ \E r \in {"ok"} \cup RefreshErrors : \E rd \in {"ok", "failed"} : \E life \in Lifetimes :
          LoginLoopTick(r, rd, life)
    \/ LoginLoopCancel

SpecLogin == InitLogin /\ [][NextLogin]_vars

\* ------------------------------------------------------- Client.GetPlaylists
notGpVars == <<hlsVars, watchVars, cfgVars, tryVars, detVars, probeVars, loginVars, fileVars,
               ppVars, libVars>>

\* What c.Do(req) can give: a response with one of these status codes, or no
\* response at all (NoResponseStatus).
NoResponseStatus == 0
Statuses == {200, 404, 500, 503}

\* res.StatusCode >= 500 && res.StatusCode < 600
IsServerError(status) == status >= 500 /\ status < 600

\* The loop goes on while count <= playlistRetries + 1.
ContinuesOneMore(c, retries) == c <= retries + 1

\* for count = 0; count <= playlistRetries; count++
Continues(c, retries) == c <= retries

\* One turn of the loop of GetPlaylists (lines 573-615) and, when the loop
\* ends with it, the rest of the function (lines 616-631).
GetPlaylistsDo(status) ==
    /\ gpPC = "loop"
    /\ responses' = Append(responses, status)
    /\ CASE status = NoResponseStatus ->
              /\ gpErr' = [kind |-> "transport", Status |-> 0]
              /\ gpPC' = "returned"
              /\ UNCHANGED <<count, lastHTTPError, gpPlaylists>>
         [] status = 200 ->
              /\ gpErr' = [kind |-> "nil", Status |-> 0]
              /\ gpPlaylists' = TRUE
              /\ gpPC' = "returned"
              /\ UNCHANGED <<count, lastHTTPError>>
         [] status \notin {NoResponseStatus, 200} /\ IsServerError(status) ->
              /\ lastHTTPError' = status
              /\ count' = count + 1
              /\ IF Continues(count + 1, playlistRetries)
                 THEN UNCHANGED <<gpPC, gpErr, gpPlaylists>>
                 ELSE /\ gpErr' = [kind |-> "http", Status |-> status]
                      /\ gpPC' = "returned"
                      /\ UNCHANGED gpPlaylists
         [] OTHER ->
              /\ gpErr' = [kind |-> "http", Status |-> status]
              /\ gpPC' = "returned"
              /\ UNCHANGED <<count, lastHTTPError, gpPlaylists>>
    /\ UNCHANGED <<playlistRetries, notGpVars>>

\* GetPlaylists is called with a retry budget and has built its request.
InitGetPlaylists ==
    /\ EngineIdle
    /\ WatchIdle
    /\ ignore = NoIgnore
    /\ CfgIdle /\ TryIdle /\ DetIdle /\ ProbeIdle
    /\ LoginIdle /\ FileIdle /\ PpIdle /\ LibIdle
    /\ playlistRetries \in 0..MaxPlaylistRetries
    /\ count = 0
    /\ gpPC = "loop"
    /\ responses = <<>>
    /\ lastHTTPError = 0
    /\ gpErr = [kind |-> "none", Status |-> 0]
    /\ gpPlaylists = FALSE

NextGetPlaylists == \E status \in Statuses \cup {NoResponseStatus} : GetPlaylistsDo(status)

SpecGetPlaylists == InitGetPlaylists /\ [][NextGetPlaylists]_vars

\* ------------------------------------- PrepareFileAutoRename and os.Create
notFileVars == <<hlsVars, watchVars, cfgVars, tryVars, detVars, probeVars, loginVars, gpVars,
                 ppVars, libVars>>

Recordings == 1..NumRecordings
Titles == 1..NumTitles

\* FormatOutput(outFormat, meta, labels, extn) for the extension "ts": the
\* name for title t is <<t, 0>>, and <<t, n>> with the extension "n.ts".
FormatOutput(t, n) == <<t, n>>

\* The loop of PrepareFileAutoRename: the first n whose name os.Stat does not
\* find.
RECURSIVE FindUnique(_, _, _)
FindUnique(t, n, existing) ==
    IF FormatOutput(t, n) \notin existing
    THEN FormatOutput(t, n)
    ELSE FindUnique(t, n + 1, existing)

\* fnameStream, err := PrepareFileAutoRename(..., "ts") in Process: the name
\* is chosen, no file is created.
PrepareFileAutoRename(r) ==
    /\ filePC[r] = "start"
    /\ fName' = [fName EXCEPT ![r] = FindUnique(title[r], 0, files)]
    /\ filePC' = [filePC EXCEPT ![r] = "prepared"]
    /\ UNCHANGED <<files, title, notFileVars>>

\* file, err := os.Create(ls.OutputFileName) in DownloadLiveStream, after the
\* playback URL and the playlists have been fetched: the file is created, or
\* truncated when it exists.
CreateOutputFile(r) ==
    /\ filePC[r] = "prepared"
    /\ files' = files \cup {fName[r]}
    /\ filePC' = [filePC EXCEPT ![r] = "writing"]
    /\ UNCHANGED <<fName, title, notFileVars>>

\* Process returns; the file stays.
RecordingDone(r) ==
    /\ filePC[r] = "writing"
    /\ filePC' = [filePC EXCEPT ![r] = "done"]
    /\ UNCHANGED <<files, fName, title, notFileVars>>

\* Recordings dispatched under one template, in a directory that may hold
\* the files of earlier recordings.
InitFiles ==
    /\ EngineIdle
    /\ WatchIdle
    /\ ignore = NoIgnore
    /\ CfgIdle /\ TryIdle /\ DetIdle /\ ProbeIdle
    /\ LoginIdle /\ GpIdle /\ PpIdle /\ LibIdle
    /\ files \in SUBSET {FormatOutput(t, 0) : t \in Titles}
    /\ filePC = [r \in Recordings |-> "start"]
    /\ fName = [r \in Recordings |-> FormatOutput(0, 0)]
    /\ title \in [Recordings -> Titles]

NextFiles ==
    \/ \E r \in Recordings : PrepareFileAutoRename(r)
    \/ \E r \in Recordings : CreateOutputFile(r)
    \/ \E r \in Recordings : RecordingDone(r)

SpecFiles == InitFiles /\ [][NextFiles]_vars

\* ------------------------------------------- Process: the post-processing
notPpVars == <<hlsVars, watchVars, cfgVars, tryVars, detVars, probeVars, loginVars, gpVars,
               fileVars, libVars>>

\* w.params: the settings the post-processing reads.
Params == [Remux : BOOLEAN, ExtractAudio : BOOLEAN, Concat : BOOLEAN,
           KeepIntermediates : BOOLEAN, DeleteCorrupted : BOOLEAN]

\* What DownloadLiveStream returned.
DownloadErrors == {"nil", "playback_url_error", "error"}

\* probeErr := probe.Do(fnameStream) (lines 962-974): a file that ffmpeg
\* cannot read is removed when deleteCorrupted is set.
PostProbe(fails) ==
    /\ ppPC = "probe"
    /\ LET err == fails \/ ~rawExists
       IN  /\ probeErr' = err
           /\ IF err /\ params.DeleteCorrupted /\ rawExists
              THEN /\ rawExists' = FALSE
                   /\ removedBy' = "deleteCorrupted"
              ELSE UNCHANGED <<rawExists, removedBy>>
    /\ ppPC' = "remux"
    /\ UNCHANGED <<params, ppDlErr, remuxErr, extractAudioErr, ppResult, notPpVars>>

\* remuxErr = remux.Do(ctx, fnameMuxed, fnameStream) (lines 975-986).
PostRemux(fails) ==
    /\ ppPC = "remux"
    /\ remuxErr' = IF params.Remux /\ ~probeErr THEN fails ELSE FALSE
    /\ ppPC' = "extractAudio"
    /\ UNCHANGED <<params, ppDlErr, probeErr, extractAudioErr, rawExists, removedBy, ppResult,
                   notPpVars>>

\* extractAudioErr = remux.Do(..., remux.WithAudioOnly()) (lines 987-1000).
PostExtractAudio(fails) ==
    /\ ppPC = "extractAudio"
    /\ extractAudioErr' =
          IF params.ExtractAudio /\ (~params.Concat \/ params.Remux) /\ ~probeErr
          THEN fails ELSE FALSE
    /\ ppPC' = "concat"
    /\ UNCHANGED <<params, ppDlErr, probeErr, remuxErr, rawExists, removedBy, ppResult,
                   notPpVars>>

\* concat.WithPrefix (lines 1002-1033): its errors are logged and counted,
\* and kept in no variable.
PostConcat(fails) ==
    /\ ppPC = "concat"
    /\ ppPC' = "delete"
    /\ UNCHANGED <<params, ppDlErr, probeErr, remuxErr, extractAudioErr, rawExists, removedBy,
                   ppResult, notPpVars>>

\* The test of lines 1036-1039 without extractAudioErr.
DeleteIntermediatesIgnoringAudio(p, pErr, rErr, aErr) ==
    ~p.KeepIntermediates /\ p.Remux /\ ~pErr /\ ~rErr

\* if !KeepIntermediates && Remux && probeErr == nil && remuxErr == nil &&
\* extractAudioErr == nil (lines 1036-1039).
DeleteIntermediates(p, pErr, rErr, aErr) ==
    ~p.KeepIntermediates /\ p.Remux /\ ~pErr /\ ~rErr /\ ~aErr

\* Process returns the first error met, post-processing included.
ProcessResultFirstError(dl, pErr, rErr, aErr) ==
    IF dl = "nil" /\ (pErr \/ rErr \/ aErr) THEN "error" ELSE dl

\* return dlErr (line 1052).
ProcessResult(dl, pErr, rErr, aErr) == dl

\* The deletion of the intermediate file and the return (lines 1035-1052).
PostDelete ==
    /\ ppPC = "delete"
    /\ IF DeleteIntermediates(params, probeErr, remuxErr, extractAudioErr) /\ rawExists
       THEN /\ rawExists' = FALSE
            /\ removedBy' = "intermediates"
       ELSE UNCHANGED <<rawExists, removedBy>>
    /\ ppResult' = ProcessResult(ppDlErr, probeErr, remuxErr, extractAudioErr)
    /\ ppPC' = "returned"
    /\ UNCHANGED <<params, ppDlErr, probeErr, remuxErr, extractAudioErr, notPpVars>>

\* DownloadLiveStream has returned (lines 916-929); the .ts file exists unless
\* the download failed before os.Create.
InitPostProcess ==
    /\ EngineIdle
    /\ WatchIdle
    /\ ignore = NoIgnore
    /\ CfgIdle /\ TryIdle /\ DetIdle /\ ProbeIdle
    /\ LoginIdle /\ GpIdle /\ FileIdle /\ LibIdle
    /\ params \in Params
    /\ ppPC = "probe"
    /\ ppDlErr \in DownloadErrors
    /\ probeErr = FALSE
    /\ remuxErr = FALSE
    /\ extractAudioErr = FALSE
    /\ rawExists = (ppDlErr # "playback_url_error")
    /\ removedBy = "none"
    /\ ppResult = "none"

NextPostProcess ==
    \/ \E fails \in BOOLEAN : PostProbe(fails)
    \/ \E fails \in BOOLEAN : PostRemux(fails)
    \/ \E fails \in BOOLEAN : PostExtractAudio(fails)
    \/ \E fails \in BOOLEAN : PostConcat(fails)
    \/ PostDelete

SpecPostProcess == InitPostProcess /\ [][NextPostProcess]_vars

\* ------------------------------------------------------------------ claims
\* Recording goroutines running for stream uuid, over every watcher.
RECURSIVE ActiveTasks(_, _)
ActiveTasks(uuid, ws) ==
    IF ws = {} THEN 0
    ELSE LET w == CHOOSE x \in ws : TRUE
         IN  tasks[w][uuid] + ActiveTasks(uuid, ws \ {w})

C2_PacketLossExceededIsError ==
    (readErrorCount > packetLossMax /\ dlPC = "reported")
        => (dlErr # "nil" /\ chanState = "Error")

\* C3: a recording interrupted by the cancellation of its context (shutdown
\* or config reload) is reported Canceled, never Finished and never Error.
C3_InterruptedIsCanceled ==
    (parentDone /\ dlPC = "reported" /\ (readErr = "canceled" \/ dlErr = "canceled"))
        => chanState = "Canceled"

\* C4: when the playlist answers 404 while emitted fragments still wait in
\* the queue, Read downloads every queued fragment before it returns and the
\* recording is reported Finished.
C4_StreamEndDrainsQueue ==
    (pollErr = "stream_ended" /\ dlPC # "read")
        => (/\ Len(downloads) = Len(emitted)
            /\ dlPC = "reported" => chanState = "Finished")

\* C5: within one recording fillQueue never emits the same fragment URL
\* twice, whatever the playlist polls return.
C5_NoUrlEmittedTwice ==
    \A i, j \in 1..Len(emitted) : i < j => emitted[i].URL # emitted[j].URL

\* C6: of two fragments emitted in one recording, the earlier one has a
\* program-date-time at most the later one's when time-based sorting is in
\* use, and a smaller base name otherwise.
C6_EmissionOrdered ==
    \A i, j \in 1..Len(emitted) :
        i < j => IF useTimeBasedSorting
                 THEN emitted[i].Time <= emitted[j].Time
                 ELSE Base(emitted[i].URL) < Base(emitted[j].URL)

\* The URLs of a sequence of fragments or playlist lines.
URLsOf(fs) == [k \in 1..Len(fs) |-> fs[k].URL]

\* C7: after the polls [u1, u2] and then [u2, u3], dated in increasing
\* order, fillQueue has emitted or is about to emit exactly u1, u2, u3 in that
\* order: u1, u2 from the first poll, only u3 from the second.
C7_TwoPollsEmitThree ==
    /\ polls = <<Window(1, 2)>> => URLsOf(emitted \o pending) = <<1, 2>>
    /\ polls = <<Window(1, 2), Window(2, 2)>> => URLsOf(emitted \o pending) = <<1, 2, 3>>

C7_Witness ==
    /\ polls = <<Window(1, 2), Window(2, 2)>>
    /\ pending = <<>>
    /\ URLsOf(emitted) = <<1, 2, 3>>

\* C8 as stated: the number of emitted fragments Read skips never exceeds
\* packetLossMax.
C8_SkippedWithinBudget == skipped <= packetLossMax

\* C8 amended: while the context of the recording is not cancelled Read has
\* skipped at most packetLossMax fragments; the failure counted above
\* packetLossMax (there is at most one) makes Read cancel the recording.
C8_SkippedWithinBudgetWhileLive ==
    /\ ~CtxDone => skipped <= packetLossMax
    /\ readErrorCount <= packetLossMax + 1
    /\ readErrorCount > packetLossMax => readDone

C8_Witness ==
    /\ packetLossMax > 0
    /\ readErrorCount = packetLossMax + 1
    /\ skipped > readErrorCount
    /\ readDone

\* C9 as stated: playlist deadline and connection-reset errors and failed
\* fragments are counted against one budget, and the recording goes on only
\* while that budget is not exhausted.
C9_SharedBudget ==
    (dlPC = "read" /\ fillPC \in {"poll", "send"} /\ ~readDone)
        => fillErrorCount + readErrorCount <= packetLossMax

\* C9 amended: fillQueue counts playlist deadline and connection-reset
\* errors in a counter of its own against packetLossMax: it polls again while
\* that count is at most packetLossMax and returns the error when it is
\* above, and the recording is then reported in the Error state.
C9_PlaylistBudget ==
    /\ fillPC \in {"poll", "send"} => fillErrorCount <= packetLossMax
    /\ fillErrorCount > packetLossMax <=> fillErr = "deadline"
    /\ fillErrorCount <= packetLossMax + 1
    /\ (readErr = "deadline" /\ dlPC = "reported") => chanState = "Error"

C9_Witness ==
    /\ packetLossMax > 0
    /\ readErr = "deadline"
    /\ readErrorCount > 0
    /\ dlPC = "reported"

\* C10: when the download of a fragment is answered 403, the recording is
\* reported in the Error state.
C10_ForbiddenFragmentIsError ==
    (dlPC = "reported" /\ \E i \in 1..Len(downloads) : downloads[i] = "forbidden")
        => chanState = "Error"

\* C11: when a playlist poll of a recording is answered 403, the channel's
\* state becomes Error, and once it is Error it becomes Idle again while the
\* watcher, not cancelled, goes on polling.
C11_ForbiddenPlaylistErrorThenIdle ==
    /\ (pollErr = "forbidden" /\ fillPC = "report") ~> (chanState = "Error")
    /\ (pollErr = "forbidden" /\ chanState = "Error" /\ ~parentDone) ~> (chanState = "Idle")

C13_NoIdleBeforeTerminal ==
    (dlPC # "start" /\ chanState = "Idle") => dlPC = "reported"

\* C14: at most one configuration is active: at any time at most one
\* configuration has a handler running or draining or a recording in flight.
C14_OneActiveConfiguration ==
    Cardinality({c \in Configs : handlers[c] \in {"running", "draining"} \/ inflight[c] > 0}) <= 1

C14_Witness ==
    /\ Len(activated) >= 2
    /\ handlers[activated[1]] = "ended"
    /\ handlers[activated[2]] = "running"
    /\ inflight[activated[2]] > 0

\* C15: a version of the configuration that was written while a reload was
\* draining, and overwritten before that drain ended, is never activated.
C15_StaleConfigNeverActivated ==
    \A i \in 1..Len(activated) : activated[i] \notin stale

\* C16: the process is terminated fatally only when recordings are still in
\* flight 300 s after the cancellation of their watchers' context.
C16_FatalOnlyAfterGrace ==
    fatal # "none" =>
       \E c \in Configs : /\ inflight[c] > 0
                          /\ handlers[c] = "draining"
                          /\ watcherWait >= ProcessingTimeout

\* C17: once fn has failed with context.Canceled, no retry helper calls fn
\* again.
C17_NoCallAfterCanceled ==
    [][tryErr = "canceled" => tryCalls' = tryCalls]_vars

\* C17, for the helpers that return a result: once fn has failed with
\* context.Canceled, DoWithResult and DoExponentialBackoffWithResult have
\* returned and never call fn again.
C17_NoCallAfterCanceledWithResult ==
    (ReturnsResult(tryHelper) /\ tryErr = "canceled") => tryPC = "returned"

C17_Witness ==
    /\ tryHelper = "DoExponentialBackoffWithResult"
    /\ tryErr = "canceled"
    /\ tryCalls = 2
    /\ tryPC = "returned"

\* C18: once the context is cancelled, no time passes in the sleep between
\* two tries of DoExponentialBackoffWithResult.
C18_SleepEndsOnCancel ==
    [][(tryHelper = "DoExponentialBackoffWithResult" /\ tryCtxDone /\ tryPC = "sleep")
          => sleepLeft' >= sleepLeft]_vars

\* The entries of the list that are named, not ignored, not in flight, and
\* for which GetUser and GetStreamPlaybackURL succeed.
Successes ==
    {i \in 1..Len(detStreams) :
        /\ detVal[detStreams[i]] = "ok"
        /\ ChannelOf(detStreams[i]) \notin detIgnored
        /\ detStreams[i] \notin detProcessing}

\* C19: when several entries of the list are eligible and validate,
\* HasNewStream returns the first of them in list order.
C19_FirstSuccessReturned ==
    (detPC = "done" /\ Cardinality(Successes) >= 2)
       => detRes.Stream = detStreams[CHOOSE i \in Successes : \A j \in Successes : i <= j]

\* C20: the variant the selection loop leaves with is one whose probe
\* succeeded, and it is not in the ignored set.
C20_AcceptedOnlyIfProbed ==
    probePC = "accepted" => (probeResult = "ok" /\ playlist \notin ignoredURLs)

\* C21: the selection of the variant ends: whatever the constraint admits and
\* whatever the probes answer, a variant is accepted after finitely many probes.
C21_SelectionTerminates == <>(probePC = "accepted")

\* C22: the cache file is removed only once clear_cache_after consecutive
\* refreshes have failed; fewer failures leave it in place.
C22_InvalidatedOnlyAfterClearCacheAfter ==
    [][(cachePresent /\ ~cachePresent') => refreshFailures' >= ClearCacheAfter]_vars

\* C23: a refresh answered maintenance or 502/503/504 leaves the cache in
\* place.
C23_TransientFailureKeepsCache ==
    [][(cachePresent /\ refreshErr' \in {"maintenance", "http502", "http503", "http504"})
          => (cachePresent' /\ cacheToken' = cacheToken)]_vars

\* C24: after a Login that succeeded the cache holds the token pair that
\* Login obtained.
C24_SuccessfulLoginIsCached ==
    loginErr = "nil" => CacheGet(cachePresent, cacheToken) = [Token |-> creds, err |-> FALSE]

\* C25: after a Login that succeeded the ticker of LoginLoop is armed for 5
\* minutes before the expiry of the token obtained.
C25_RefreshFiveMinutesBeforeExpiry ==
    loginErr = "nil" => (loginPC \in {"waiting", "returned"} /\ nextRefresh = creds - RefreshMargin)

\* C26: when the context given to Read is cancelled while the producer is
\* still polling or sending, Read returns, and returns context.Canceled.
C26_CancelledReadReturnsCanceled ==
    (parentDone /\ dlPC = "read" /\ fillPC \in {"poll", "send"})
        ~> (dlPC = "readReturned" /\ readErr = "canceled")

\* C27: GetPlaylists with budget R sends at most R+1 requests and none after
\* a 200; a 200 returns the playlists without error; R+1 answers that are all
\* 5xx return the last of them as the error, and no playlists.
C27_GetPlaylistsRetryBudget ==
    LET n == Len(responses)
        all5xx == \A i \in 1..n : IsServerError(responses[i])
    IN  /\ n <= playlistRetries + 1
        /\ \A i \in 1..(n - 1) : responses[i] # 200
        /\ (gpPC = "loop") = (n <= playlistRetries /\ all5xx)
        /\ (gpPC = "returned" /\ responses[n] = 200)
              => (gpErr.kind = "nil" /\ gpPlaylists)
        /\ (gpPC = "returned" /\ n = playlistRetries + 1 /\ all5xx)
              => (gpErr = [kind |-> "http", Status |-> responses[n]] /\ ~gpPlaylists)

C27_Witness ==
    /\ gpPC = "returned"
    /\ playlistRetries = 2
    /\ responses = <<500, 503, 500>>
    /\ gpErr = [kind |-> "http", Status |-> 500]

\* C28: two recordings that are both between the choice of their file name
\* and their end never have the same file name.
C28_DistinctOutputFiles ==
    \A r1, r2 \in Recordings :
        (r1 # r2 /\ filePC[r1] \in {"prepared", "writing"}
                 /\ filePC[r2] \in {"prepared", "writing"})
            => fName[r1] # fName[r2]

\* C29: whatever fails in the post-processing, Process returns what
\* DownloadLiveStream returned.
C29_PostProcessingKeepsResult == ppPC = "returned" => ppResult = ppDlErr

C29_Witness ==
    /\ ppPC = "returned"
    /\ ppDlErr = "nil"
    /\ remuxErr
    /\ extractAudioErr
    /\ ppResult = "nil"

\* C30 as stated: the .ts file is removed only if remux is set and probe,
\* remux and audio extraction succeeded.
C30_DeletedOnlyAfterSuccessfulRemux ==
    removedBy # "none" => (params.Remux /\ ~probeErr /\ ~remuxErr /\ ~extractAudioErr)

\* C30 as amended: the .ts file is removed only if remux is set,
\* keepIntermediates is not, and probe, remux and audio extraction succeeded,
\* or if the probe failed and deleteCorrupted is set; else it is left in place.
C30_DeletedOnlyAfterRemuxOrCorrupted ==
    /\ removedBy # "none" =>
          \/ /\ params.Remux /\ ~params.KeepIntermediates
             /\ ~probeErr /\ ~remuxErr /\ ~extractAudioErr
          \/ probeErr /\ params.DeleteCorrupted
    /\ rawExists = (ppDlErr # "playback_url_error" /\ removedBy = "none")

C30_Witness ==
    /\ ppPC = "returned"
    /\ removedBy = "intermediates"
    /\ params.ExtractAudio
    /\ ~rawExists

\* ------------------------------------------------- the chat subscription
\* const commentBufMax = 100, the capacity of commentsCh.
CommentBufMax == 100

notChatVars == <<coreVars, bpVars, setVars, idleVars, goVars, sioVars>>

\* What conn.Read can deliver.  "data_bad" is a data message whose payload does
\* not decode, "other" a text message of another type or one that is not JSON,
\* "binary" a message that is not text.
Messages == {"connection_ack", "start_ack", "data", "data_bad", "ka", "other", "binary"}

\* The server follows the protocol: it acknowledges a connection_init, once,
\* and it speaks about a subscription only after its start message.
Offered(m) ==
    CASE m = "connection_ack" ->
             /\ \E i \in 1..Len(wsSent) : wsSent[i] = "connection_init"
             /\ "connection_ack" \notin received
      [] m \in {"start_ack", "data", "data_bad"} ->
             \E i \in 1..Len(wsSent) : wsSent[i] = "start"
      [] OTHER -> TRUE

\* The mutant of SubscribesOn: a keep-alive starts a subscription too.
SubscribesOnKeepAlive(type) == type \in {"connection_ack", "ka"}

\* The message types on which WatchComments starts the goroutine of Subscribe.
SubscribesOn(type) == type = "connection_ack"

\* The goroutine of ConnectionInit: marshal and conn.Write, which fails on a
\* cancelled context; the error is logged.
ConnectionInit(ok) ==
    /\ initPC = "pending"
    /\ chatCtxDone => ~ok
    /\ initPC' = IF ok THEN "written" ELSE "failed"
    /\ wsSent' = IF ok THEN Append(wsSent, "connection_init") ELSE wsSent
    /\ UNCHANGED <<chatCtxDone, subscribers, received, wsPC, commentsCh, writerPC, chatErr>>
    /\ UNCHANGED notChatVars

\* A goroutine of Subscribe: build the start message and conn.Write it.
Subscribe(ok) ==
    /\ subscribers > 0
    /\ chatCtxDone => ~ok
    /\ subscribers' = subscribers - 1
    /\ wsSent' = IF ok THEN Append(wsSent, "start") ELSE wsSent
    /\ UNCHANGED <<chatCtxDone, initPC, received, wsPC, commentsCh, writerPC, chatErr>>
    /\ UNCHANGED notChatVars

\* One conn.Read of WatchComments that delivers a message, and the switch on it.
WatchCommentsRead(m) ==
    /\ wsPC = "read"
    /\ ~chatCtxDone
    /\ Offered(m)
    /\ received' = received \cup {m}
    /\ subscribers' = IF SubscribesOn(m) THEN subscribers + 1 ELSE subscribers
    /\ wsPC' = IF m = "data" THEN "send" ELSE "read"
    /\ UNCHANGED <<chatCtxDone, initPC, wsSent, commentsCh, writerPC, chatErr>>
    /\ UNCHANGED notChatVars

\* conn.Read fails: io.EOF for a normal closure, the error otherwise.  WatchComments
\* returns it, DownloadChat returns it and its deferred close(commentsCh) runs.
WatchCommentsReadErr(e) ==
    /\ wsPC = "read"
    /\ chatCtxDone <=> e = "canceled"
    /\ wsPC' = "returned"
    /\ chatErr' = e
    /\ UNCHANGED <<chatCtxDone, initPC, subscribers, wsSent, received, commentsCh, writerPC>>
    /\ UNCHANGED notChatVars

\* commentChan <- &resp.Data.OnPostComment: proceeds when the buffer has room.
WatchCommentsSend ==
    /\ wsPC = "send"
    /\ commentsCh < CommentBufMax
    /\ commentsCh' = commentsCh + 1
    /\ wsPC' = "read"
    /\ UNCHANGED <<chatCtxDone, initPC, subscribers, wsSent, received, writerPC, chatErr>>
    /\ UNCHANGED notChatVars

\* The goroutine that writes the chat file: os.Create and the opening bracket
\* (it returns when either fails), the range over commentsCh, the closing bracket.
CommentWriter(ok) ==
    /\ \/ /\ writerPC = "create"
          /\ writerPC' = IF ok THEN "range" ELSE "dead"
          /\ UNCHANGED commentsCh
       \/ /\ writerPC = "range"
          /\ commentsCh > 0
          /\ ok
          /\ commentsCh' = commentsCh - 1
          /\ UNCHANGED writerPC
       \/ /\ writerPC = "range"
          /\ commentsCh = 0
          /\ wsPC = "returned"
          /\ ok
          /\ writerPC' = "done"
          /\ UNCHANGED commentsCh
    /\ UNCHANGED <<chatCtxDone, initPC, subscribers, wsSent, received, wsPC, chatErr>>
    /\ UNCHANGED notChatVars

\* chatDownloadCancel() of Process, after DownloadLiveStream has returned.
ChatDownloadCancel ==
    /\ ~chatCtxDone
    /\ wsPC # "idle"
    /\ chatCtxDone' = TRUE
    /\ UNCHANGED <<initPC, subscribers, wsSent, received, wsPC, commentsCh, writerPC, chatErr>>
    /\ UNCHANGED notChatVars

\* DownloadChat has dialed, started the writer and entered WatchComments, which
\* has started the goroutine of ConnectionInit.
InitChat ==
    /\ EngineIdle
    /\ WatchIdle
    /\ ignore = NoIgnore
    /\ CfgIdle /\ TryIdle /\ DetIdle /\ ProbeIdle
    /\ LoginIdle /\ GpIdle /\ FileIdle /\ PpIdle
    /\ BpIdle /\ SetIdle /\ IdleRuleIdle /\ GoIdle /\ SioIdle
    /\ chatCtxDone = FALSE
    /\ initPC = "pending"
    /\ subscribers = 0
    /\ wsSent = <<>>
    /\ received = {}
    /\ wsPC = "read"
    /\ commentsCh = 0
    /\ writerPC = "create"
    /\ chatErr = "none"

NextChat ==
    \/ \E ok \in BOOLEAN : ConnectionInit(ok)
    \/ \E ok \in BOOLEAN : Subscribe(ok)
    \/ \E m \in Messages : WatchCommentsRead(m)
    \/ \E e \in {"EOF", "error", "canceled"} : WatchCommentsReadErr(e)
    \/ WatchCommentsSend
    \/ \E ok \in BOOLEAN : CommentWriter(ok)
    \/ ChatDownloadCancel

SpecChat == InitChat /\ [][NextChat]_vars

\* C31: every start message on the connection was written after a
\* connection_ack had been read, and after the connection_init message.
C31_StartAfterAckAndInit ==
    \A i \in 1..Len(wsSent) :
        wsSent[i] = "start" =>
            /\ "connection_ack" \in received
            /\ \E j \in 1..(i - 1) : wsSent[j] = "connection_init"

\* The start message has been written and acknowledged.
C31_Witness ==
    /\ wsSent = <<"connection_init", "start">>
    /\ "start_ack" \in received

\* C39: once the chat context is cancelled, WatchComments is never left in its
\* send on commentsCh with the buffer full and the writer gone, where nothing
\* can ever release it.
C39_CancelledChatNeverStuck ==
    ~(chatCtxDone /\ wsPC = "send" /\ commentsCh = CommentBufMax /\ writerPC = "dead")

\* ------------------------------------------------------- GetBestPlaylist
notBpVars == <<coreVars, chatVars, setVars, idleVars, goVars, sioVars>>

\* A Resolution attribute is "<width>x<height>", written here as the pair of
\* the two numbers; NoResolution is the attribute that is absent or not numeric.
NoResolution == <<>>

\* parseResolution: strings.Cut and two strconv.Atoi whose errors are dropped,
\* which leaves 0 for what does not parse.
parseResolution(resolution) ==
    IF resolution = NoResolution
    THEN [width |-> 0, height |-> 0]
    ELSE [width |-> resolution[1], height |-> resolution[2]]

Resolutions == {<<640, 360>>, <<1280, 720>>}

\* The variants of a master playlist: video variants, and the audio-only one.
VariantPlaylists ==
    [Bandwidth : {1000, 3000}, Resolution : Resolutions, FrameRate : {30, 60},
     Video : {"video"}]
    \cup {[Bandwidth |-> 128, Resolution |-> NoResolution, FrameRate |-> 0,
           Video |-> "audio_only"]}

\* Playlist{}, the zero value GetBestPlaylist returns with found = false.
ZeroPlaylist == [Bandwidth |-> 0, Resolution |-> NoResolution, FrameRate |-> 0, Video |-> ""]

\* PlaylistConstraint{}: no field is set.
NoConstraint ==
    [MinBandwidth |-> 0, MaxBandwidth |-> 0, MinHeight |-> 0, MaxHeight |-> 0,
     MinWidth |-> 0, MaxWidth |-> 0, MinFrameRate |-> 0, MaxFrameRate |-> 0,
     AudioOnly |-> FALSE]

Constraints ==
    { NoConstraint,
      [NoConstraint EXCEPT !.MaxWidth = 640],
      [NoConstraint EXCEPT !.MinHeight = 720],
      [NoConstraint EXCEPT !.MaxHeight = 480],
      [NoConstraint EXCEPT !.MinFrameRate = 60],
      [NoConstraint EXCEPT !.MaxFrameRate = 30],
      [NoConstraint EXCEPT !.MinBandwidth = 2000],
      [NoConstraint EXCEPT !.MaxBandwidth = 2000, !.MinWidth = 1000],
      [NoConstraint EXCEPT !.AudioOnly = TRUE] }

\* The switch of GetBestPlaylist: the stream is skipped when a case holds.
Rejects(constraint, stream) ==
    LET r == parseResolution(stream.Resolution) IN
    \/ constraint.MinBandwidth > 0 /\ stream.Bandwidth < constraint.MinBandwidth
    \/ constraint.MaxBandwidth > 0 /\ stream.Bandwidth > constraint.MaxBandwidth
    \/ constraint.MinHeight > 0 /\ r.height < constraint.MinHeight
    \/ constraint.MaxHeight > 0 /\ r.height > constraint.MaxHeight
    \/ constraint.MinWidth > 0 /\ r.width < constraint.MinWidth
    \/ constraint.MaxWidth > 0 /\ r.width > constraint.MaxWidth
    \/ constraint.MinFrameRate > 0 /\ stream.FrameRate < constraint.MinFrameRate
    \/ constraint.MaxFrameRate > 0 /\ stream.FrameRate > constraint.MaxFrameRate
    \/ constraint.AudioOnly /\ stream.Video # "audio_only"

\* The mutant of compareStreams: bandwidth is compared first.
compareStreamsBandwidthFirst(s1, s2) ==
    LET h1 == parseResolution(s1.Resolution).height
        h2 == parseResolution(s2.Resolution).height
    IN  IF s1.Bandwidth # s2.Bandwidth THEN s1.Bandwidth - s2.Bandwidth
        ELSE IF h1 # h2 THEN h1 - h2
        ELSE IF s1.FrameRate > s2.FrameRate THEN 1
        ELSE IF s1.FrameRate < s2.FrameRate THEN -1
        ELSE 0

\* compareStreams: height, then frame rate, then bandwidth.
compareStreams(s1, s2) ==
    LET h1 == parseResolution(s1.Resolution).height
        h2 == parseResolution(s2.Resolution).height
    IN  IF h1 # h2 THEN h1 - h2
        ELSE IF s1.FrameRate # s2.FrameRate
             THEN IF s1.FrameRate > s2.FrameRate THEN 1 ELSE -1
        ELSE s1.Bandwidth - s2.Bandwidth

\* The loop of GetBestPlaylist from streams[i] on, with best and found so far.
RECURSIVE streamLoop(_, _, _, _, _)
streamLoop(streams, constraints, i, best, ok) ==
    IF i > Len(streams) THEN [best |-> best, found |-> ok]
    ELSE LET stream == streams[i] IN
         IF \E k \in 1..Len(constraints) : Rejects(constraints[k], stream)
         THEN streamLoop(streams, constraints, i + 1, best, ok)
         ELSE IF ~ok \/ compareStreams(stream, best) > 0
              THEN streamLoop(streams, constraints, i + 1, stream, TRUE)
              ELSE streamLoop(streams, constraints, i + 1, best, ok)

\* GetBestPlaylist over lists of playlists and of constraints.
BestPlaylistOf(streams, constraints) ==
    streamLoop(streams, constraints, 1, ZeroPlaylist, FALSE)

\* The call.
GetBestPlaylistCall ==
    /\ bpPC = "called"
    /\ LET res == BestPlaylistOf(bpStreams, bpConstraints) IN
       /\ bpBest' = res.best
       /\ bpFound' = res.found
    /\ bpPC' = "returned"
    /\ UNCHANGED <<bpStreams, bpConstraints>>
    /\ UNCHANGED notBpVars

\* Sequences over S of length at most n.
SeqUpTo(S, n) == UNION {[1..k -> S] : k \in 0..n}

InitBestPlaylist ==
    /\ EngineIdle
    /\ WatchIdle
    /\ ignore = NoIgnore
    /\ CfgIdle /\ TryIdle /\ DetIdle /\ ProbeIdle
    /\ LoginIdle /\ GpIdle /\ FileIdle /\ PpIdle
    /\ ChatIdle /\ SetIdle /\ IdleRuleIdle /\ GoIdle /\ SioIdle
    /\ bpStreams \in SeqUpTo(VariantPlaylists, MaxStreams)
    /\ bpConstraints \in SeqUpTo(Constraints, MaxConstraints)
    /\ bpPC = "called"
    /\ bpBest = <<>>
    /\ bpFound = FALSE

NextBestPlaylist == GetBestPlaylistCall

SpecBestPlaylist == InitBestPlaylist /\ [][NextBestPlaylist]_vars

\* s1 is at least s2 by height, then frame rate, then bandwidth.
AtLeast(s1, s2) ==
    LET h1 == parseResolution(s1.Resolution).height
        h2 == parseResolution(s2.Resolution).height
    IN  \/ h1 > h2
        \/ h1 = h2 /\ s1.FrameRate > s2.FrameRate
        \/ h1 = h2 /\ s1.FrameRate = s2.FrameRate /\ s1.Bandwidth >= s2.Bandwidth

\* The positions of the streams that no constraint rejects.
Eligible ==
    {i \in 1..Len(bpStreams) :
        \A k \in 1..Len(bpConstraints) : ~Rejects(bpConstraints[k], bpStreams[i])}

\* C32: GetBestPlaylist reports found exactly when some playlist satisfies every
\* constraint, and then returns one of those that is at least every other of
\* them by height, then frame rate, then bandwidth.
C32_BestAmongEligible ==
    bpPC = "returned" =>
        /\ bpFound <=> Eligible # {}
        /\ bpFound =>
              /\ \E i \in Eligible : bpStreams[i] = bpBest
              /\ \A j \in Eligible : AtLeast(bpBest, bpStreams[j])

\* Of two eligible playlists the one returned has the lower bandwidth: it won
\* on height or on frame rate.
C32_Witness ==
    /\ bpPC = "returned"
    /\ bpFound
    /\ Cardinality(Eligible) >= 2
    /\ \E j \in Eligible : bpStreams[j].Bandwidth > bpBest.Bandwidth

\* --------------------------------------------------------------- sync.Set
notSetVars == <<coreVars, chatVars, bpVars, idleVars, goVars, sioVars>>

Goroutines == 1..NumGoroutines
Keys == 1..NumKeys
NoGoroutine == 0

\* The mutant of CanLock: Lock never waits.
CanLockAlways(m) == TRUE

\* s.mu.Lock() proceeds when nobody holds the mutex for writing or reading.
CanLock(m) == m.writer = NoGoroutine /\ m.readers = {}

\* s.mu.RLock() proceeds when nobody holds the mutex for writing.
CanRLock(m) == m.writer = NoGoroutine

\* The keys written and not released afterwards, for writes in the order of log.
RECURSIVE Survivors(_)
Survivors(log) ==
    IF log = <<>> THEN {}
    ELSE LET before == Survivors(SubSeq(log, 1, Len(log) - 1))
             last == log[Len(log)]
         IN  IF last.op = "Set" THEN before \cup {last.key} ELSE before \ {last.key}

\* A goroutine calls Set, Release, Contains or Len.
SetCall(g, op, key) ==
    /\ setPC[g] = "idle"
    /\ setOps < MaxSetOps
    /\ setOps' = setOps + 1
    /\ setOp' = [setOp EXCEPT ![g] = [op |-> op, key |-> key]]
    /\ setPC' = [setPC EXCEPT ![g] = "lock"]
    /\ UNCHANGED <<items, mu, setLocal, setLog, setRet>>
    /\ UNCHANGED notSetVars

\* s.mu.Lock() of Set and Release, s.mu.RLock() of Contains and Len.
SetLock(g) ==
    /\ setPC[g] = "lock"
    /\ IF setOp[g].op \in {"Set", "Release"}
       THEN /\ CanLock(mu)
            /\ mu' = [mu EXCEPT !.writer = g]
       ELSE /\ CanRLock(mu)
            /\ mu' = [mu EXCEPT !.readers = @ \cup {g}]
    /\ setPC' = [setPC EXCEPT ![g] = "access"]
    /\ UNCHANGED <<items, setOp, setLocal, setLog, setRet, setOps>>
    /\ UNCHANGED notSetVars

\* The map access of Contains and Len, and the lookup with which an assignment
\* to or a delete from a map begins.
SetAccess(g) ==
    /\ setPC[g] = "access"
    /\ setLocal' = [setLocal EXCEPT ![g] = items]
    /\ IF setOp[g].op = "Contains"
       THEN /\ setRet' = [setRet EXCEPT ![g] = [got |-> setOp[g].key \in items,
                                                want |-> setOp[g].key \in Survivors(setLog)]]
            /\ setPC' = [setPC EXCEPT ![g] = "unlock"]
       ELSE IF setOp[g].op = "Len"
       THEN /\ setRet' = [setRet EXCEPT ![g] = [got |-> Cardinality(items),
                                                want |-> Cardinality(Survivors(setLog))]]
            /\ setPC' = [setPC EXCEPT ![g] = "unlock"]
       ELSE /\ setPC' = [setPC EXCEPT ![g] = "update"]
            /\ UNCHANGED setRet
    /\ UNCHANGED <<items, mu, setOp, setLog, setOps>>
    /\ UNCHANGED notSetVars

\* s.items[key] = struct{}{} and delete(s.items, key) take effect.
SetUpdate(g) ==
    /\ setPC[g] = "update"
    /\ items' = IF setOp[g].op = "Set"
                THEN setLocal[g] \cup {setOp[g].key}
                ELSE setLocal[g] \ {setOp[g].key}
    /\ setLog' = Append(setLog, setOp[g])
    /\ setPC' = [setPC EXCEPT ![g] = "unlock"]
    /\ UNCHANGED <<mu, setOp, setLocal, setRet, setOps>>
    /\ UNCHANGED notSetVars

\* The deferred s.mu.Unlock() or s.mu.RUnlock(); the operation returns.
SetUnlock(g) ==
    /\ setPC[g] = "unlock"
    /\ mu' = [writer |-> IF mu.writer = g THEN NoGoroutine ELSE mu.writer,
              readers |-> mu.readers \ {g}]
    /\ setPC' = [setPC EXCEPT ![g] = "idle"]
    /\ UNCHANGED <<items, setOp, setLocal, setLog, setRet, setOps>>
    /\ UNCHANGED notSetVars

\* NewSet(), and goroutines that share it.
InitSet ==
    /\ EngineIdle
    /\ WatchIdle
    /\ ignore = NoIgnore
    /\ CfgIdle /\ TryIdle /\ DetIdle /\ ProbeIdle
    /\ LoginIdle /\ GpIdle /\ FileIdle /\ PpIdle
    /\ ChatIdle /\ BpIdle /\ IdleRuleIdle /\ GoIdle /\ SioIdle
    /\ items = {}
    /\ mu = [writer |-> NoGoroutine, readers |-> {}]
    /\ setPC = [g \in Goroutines |-> "idle"]
    /\ setOp = [g \in Goroutines |-> [op |-> "Len", key |-> 1]]
    /\ setLocal = [g \in Goroutines |-> {}]
    /\ setLog = <<>>
    /\ setRet = [g \in Goroutines |-> [got |-> 0, want |-> 0]]
    /\ setOps = 0

NextSet ==
    \E g \in Goroutines :
        \/ \E op \in {"Set", "Release", "Contains", "Len"}, key \in Keys : SetCall(g, op, key)
        \/ SetLock(g)
        \/ SetAccess(g)
        \/ SetUpdate(g)
        \/ SetUnlock(g)

SpecSet == InitSet /\ [][NextSet]_vars

\* C33: every Contains and Len returns what the writes that took effect before
\* it give, and once every operation has returned the set holds exactly the
\* keys set and not released afterwards, which is what Len then counts.
C33_SetLinearizable ==
    /\ \A g \in DOMAIN setRet : setRet[g].got = setRet[g].want
    /\ (setPC # <<>> /\ \A g \in DOMAIN setPC : setPC[g] = "idle") =>
          /\ items = Survivors(setLog)
          /\ Cardinality(items) = Cardinality(Survivors(setLog))

\* Two keys were set and one of them released, all operations have returned.
C33_Witness ==
    /\ setPC # <<>> /\ \A g \in DOMAIN setPC : setPC[g] = "idle"
    /\ Len(setLog) = 3
    /\ setLog[3].op = "Release"
    /\ Cardinality(items) = 1

\* C34: when HasNewStream reports a stream, the stream, the user and the
\* playback URL it returns are those of one entry of the list, an entry for
\* which GetUser and GetStreamPlaybackURL both succeeded.
C34_ResponseOfOneEntry ==
    (detPC = "done" /\ detRes.PlaybackURL # NoStream) =>
        /\ detRes.User = detRes.Stream
        /\ detRes.PlaybackURL = detRes.Stream
        /\ \E i \in Successes : detStreams[i] = detRes.Stream

\* ------------------------------------------- fillQueue against the clock
notIdleVars == <<coreVars, chatVars, bpVars, setVars, goVars, sioVars>>

\* 5*time.Minute, in minutes.
IdleLimit == 5

\* A minute passes, while fillQueue sleeps or polls, or while it is blocked in
\* `fragChan <- f` on a full fragChan (a send with room takes no time).
IdleTick ==
    /\ idlePC = "poll" \/ (idlePC = "send" /\ queued = FragChanCap)
    /\ clock < MaxClock
    /\ clock' = clock + 1
    /\ blocked' = IF idlePC = "send" THEN blocked + 1 ELSE blocked
    /\ UNCHANGED <<lastFragmentReceivedTimestamp, idlePC, nNew, queued, idleErr>>
    /\ UNCHANGED notIdleVars

\* The test that ends an iteration (lines 354-361): io.EOF when more than 5
\* minutes have passed since the timestamp, else sleep a second and poll again.
IdleIterationEnd(timestamp) ==
    IF clock - timestamp > IdleLimit
    THEN /\ idlePC' = "returned"
         /\ idleErr' = "EOF"
    ELSE /\ idlePC' = "poll"
         /\ UNCHANGED idleErr

\* GetFragmentURLs returns a playlist with n new fragments (lines 284-343):
\* the timestamp is taken when n > 0, before the sends.
IdlePoll(n) ==
    /\ idlePC = "poll"
    /\ nNew' = n
    /\ IF n > 0
       THEN /\ lastFragmentReceivedTimestamp' = clock
            /\ blocked' = 0
            /\ idlePC' = "send"
            /\ UNCHANGED idleErr
       ELSE /\ UNCHANGED <<lastFragmentReceivedTimestamp, blocked>>
            /\ IdleIterationEnd(lastFragmentReceivedTimestamp)
    /\ UNCHANGED <<clock, queued>>
    /\ UNCHANGED notIdleVars

\* fragChan <- f (line 350) proceeds when fragChan has room; after the last
\* fragment the iteration ends.
IdleSend ==
    /\ idlePC = "send"
    /\ queued < FragChanCap
    /\ queued' = queued + 1
    /\ nNew' = nNew - 1
    /\ IF nNew = 1
       THEN IdleIterationEnd(lastFragmentReceivedTimestamp)
       ELSE UNCHANGED <<idlePC, idleErr>>
    /\ UNCHANGED <<clock, lastFragmentReceivedTimestamp, blocked>>
    /\ UNCHANGED notIdleVars

\* Read takes a fragment from fragChan, at its own pace.
IdleReceive ==
    /\ idlePC \in {"poll", "send"}
    /\ queued > 0
    /\ queued' = queued - 1
    /\ UNCHANGED <<clock, lastFragmentReceivedTimestamp, idlePC, nNew, blocked, idleErr>>
    /\ UNCHANGED notIdleVars

\* fillQueue starts: lastFragmentReceivedTimestamp := time.Now().
InitIdleRule ==
    /\ EngineIdle
    /\ WatchIdle
    /\ ignore = NoIgnore
    /\ CfgIdle /\ TryIdle /\ DetIdle /\ ProbeIdle
    /\ LoginIdle /\ GpIdle /\ FileIdle /\ PpIdle
    /\ ChatIdle /\ BpIdle /\ SetIdle /\ GoIdle /\ SioIdle
    /\ clock = 0
    /\ lastFragmentReceivedTimestamp = 0
    /\ idlePC = "poll"
    /\ nNew = 0
    /\ queued = 0
    /\ blocked = 0
    /\ idleErr = "none"

NextIdleRule ==
    \/ IdleTick
    \/ \E n \in 0..MaxNew : IdlePoll(n)
    \/ IdleSend
    \/ IdleReceive

SpecIdleRule == InitIdleRule /\ [][NextIdleRule]_vars

\* C35: when fillQueue returns io.EOF through its 5-minute rule, more than 5
\* minutes have passed since the last poll with a new fragment even without
\* the minutes it spent blocked on a full fragChan.
C35_BlockedTimeNeverEndsStream ==
    (idlePC = "returned" /\ idleErr = "EOF") =>
        clock - lastFragmentReceivedTimestamp - blocked > IdleLimit

\* ------------------------------------- the go statement of ConfigReloader
notGoVars == <<coreVars, chatVars, bpVars, setVars, idleVars, sioVars>>

\* var configContext context.Context: nil.
NilContext == 0

\* The contexts are numbered like the configurations they are made for.
Reloads == 1..MaxReloads

\* configContext, configCancel = context.WithCancel(ctx); go func() {...}()
\* (lines 189-195): the variable is assigned, the goroutine exists and has not
\* run yet.
Spawn(c) ==
    /\ configContext' = c
    /\ goPC' = [goPC EXCEPT ![c] = "spawned"]

\* case newConfig := <-configChan (lines 180-195): with a context in the
\* variable, configCancel() and the wait for doneChan; else the go statement.
GoReloaderRecv ==
    /\ reloadPC = "select"
    /\ reloads < MaxReloads
    /\ reloads' = reloads + 1
    /\ IF configContext # NilContext
       THEN /\ cancelled' = cancelled \cup {configContext}
            /\ reloadPC' = "drain"
            /\ UNCHANGED <<configContext, goPC>>
       ELSE /\ Spawn(reloads + 1)
            /\ UNCHANGED <<cancelled, reloadPC>>
    /\ UNCHANGED <<ctxDone, handlerCtx>>
    /\ UNCHANGED notGoVars

\* case <-doneChan of the drain (lines 183-185): a goroutine whose handleConfig
\* has returned hands over, and the go statement follows.
GoReloaderDrained(c) ==
    /\ reloadPC = "drain"
    /\ goPC[c] = "returned"
    /\ goPC' = [goPC EXCEPT ![c] = "ended", ![reloads] = "spawned"]
    /\ configContext' = reloads
    /\ reloadPC' = "select"
    /\ UNCHANGED <<ctxDone, cancelled, reloads, handlerCtx>>
    /\ UNCHANGED notGoVars

\* case <-ctx.Done() (lines 196-200): configCancel() and configContext = nil.
GoReloaderShutdown ==
    /\ reloadPC = "select"
    /\ ctxDone
    /\ IF configContext # NilContext
       THEN /\ cancelled' = cancelled \cup {configContext}
            /\ configContext' = NilContext
       ELSE UNCHANGED <<cancelled, configContext>>
    /\ reloadPC' = "shutdown"
    /\ UNCHANGED <<ctxDone, reloads, goPC, handlerCtx>>
    /\ UNCHANGED notGoVars

\* case <-doneChan of the shutdown (lines 203-211): return ctx.Err().
GoReloaderExit(c) ==
    /\ reloadPC = "shutdown"
    /\ goPC[c] = "returned"
    /\ goPC' = [goPC EXCEPT ![c] = "ended"]
    /\ reloadPC' = "returned"
    /\ UNCHANGED <<ctxDone, configContext, cancelled, reloads, handlerCtx>>
    /\ UNCHANGED notGoVars

\* case <-time.After(30 * time.Second) of either wait: log.Fatal.
GoReloaderFatal ==
    /\ reloadPC \in {"drain", "shutdown"}
    /\ reloadPC' = "fatal"
    /\ UNCHANGED <<ctxDone, configContext, cancelled, reloads, goPC, handlerCtx>>
    /\ UNCHANGED notGoVars

\* The goroutine runs: handleConfig(configContext, newConfig) reads the
\* variable configContext, which the closure shares with ConfigReloader, now.
GoHandlerCall(c) ==
    /\ reloadPC # "fatal"
    /\ goPC[c] = "spawned"
    /\ handlerCtx' = [handlerCtx EXCEPT ![c] = configContext]
    /\ goPC' = [goPC EXCEPT ![c] = "running"]
    /\ UNCHANGED <<ctxDone, configContext, cancelled, reloadPC, reloads>>
    /\ UNCHANGED notGoVars

\* handleConfig returns once its context is done (watch_command.go lines
\* 255-266 and its wg.Wait()); the goroutine goes on to doneChan <- struct{}{}.
\* context.WithCancelCause panics on a nil parent.
GoHandlerReturn(c) ==
    /\ reloadPC # "fatal"
    /\ goPC[c] = "running"
    /\ IF handlerCtx[c] = NilContext
       THEN goPC' = [goPC EXCEPT ![c] = "panicked"]
       ELSE /\ ctxDone \/ handlerCtx[c] \in cancelled
            /\ goPC' = [goPC EXCEPT ![c] = "returned"]
    /\ UNCHANGED <<ctxDone, configContext, cancelled, reloadPC, reloads, handlerCtx>>
    /\ UNCHANGED notGoVars

\* The caller of ConfigReloader cancels ctx.
GoRootCancel ==
    /\ ~ctxDone
    /\ reloadPC # "fatal"
    /\ ctxDone' = TRUE
    /\ UNCHANGED <<configContext, cancelled, reloadPC, reloads, goPC, handlerCtx>>
    /\ UNCHANGED notGoVars

\* ConfigReloader enters its loop.
InitGo ==
    /\ EngineIdle
    /\ WatchIdle
    /\ ignore = NoIgnore
    /\ CfgIdle /\ TryIdle /\ DetIdle /\ ProbeIdle
    /\ LoginIdle /\ GpIdle /\ FileIdle /\ PpIdle
    /\ ChatIdle /\ BpIdle /\ SetIdle /\ IdleRuleIdle /\ SioIdle
    /\ ctxDone = FALSE
    /\ configContext = NilContext
    /\ cancelled = {}
    /\ reloadPC = "select"
    /\ reloads = 0
    /\ goPC = [c \in Reloads |-> "none"]
    /\ handlerCtx = [c \in Reloads |-> NilContext]

NextGo ==
    \/ GoReloaderRecv
    \/ \E c \in Reloads : GoReloaderDrained(c)
    \/ GoReloaderShutdown
    \/ \E c \in Reloads : GoReloaderExit(c)
    \/ GoReloaderFatal
    \/ \E c \in Reloads : GoHandlerCall(c)
    \/ \E c \in Reloads : GoHandlerReturn(c)
    \/ GoRootCancel

SpecGo == InitGo /\ [][NextGo]_vars

\* C36: every call of handleConfig gets the context that was made for its own
\* configuration, never nil and never another configuration's.
C36_HandlerGetsOwnContext ==
    \A c \in DOMAIN goPC :
        goPC[c] \in {"running", "returned", "panicked", "ended"} => handlerCtx[c] = c

\* C37: ConfigReloader is never terminated by the 30 s timer of its shutdown
\* when no configuration was ever activated.
C37_NoFatalWithoutHandler ==
    ~(fatal = "reloader" /\ reloaderPC = "shutdown" /\ activated = <<>>)

\* C38: LoginLoop does not crash after a Login that succeeded and cached a
\* token that expires in 5 minutes or less.
C38_ShortLivedTokenKeepsLoopRunning ==
    (loginErr = "nil" /\ cachePresent /\ cacheToken = creds /\ creds - now <= RefreshMargin)
        => loginPC # "panicked"

\* --------------------------------------------------- socketio.UnmarshalV4
notSioVars == <<coreVars, chatVars, bpVars, setVars, idleVars, goVars>>

\* The bytes packets are made of: '4', '2', '9', '-', '/', ',', '{', '[', 'x',
\* and '!', which is below '0'.
Bytes == {52, 50, 57, 45, 47, 44, 123, 91, 120, 33}

\* data[i] of Go, for i < len(data).
ByteAt(data, i) == data[i + 1]

\* b - 48 on a byte.
Minus48(b) == (b - 48 + 256) % 256

\* data[idx] >= 48 && data[idx] <= 57
IsDigit(b) == b >= 48 /\ b <= 57

\* for idx < len(data) && data[idx] != stop { idx++ }: where the loops of the
\* optional fields stop.
RECURSIVE ScanUntil(_, _, _)
ScanUntil(data, idx, stop) ==
    IF idx < Len(data) /\ ByteAt(data, idx) # stop
    THEN ScanUntil(data, idx + 1, stop)
    ELSE idx

\* The number the loops of Attachments and ID build from data[from..to-1].
RECURSIVE Number(_, _, _, _)
Number(data, from, to, acc) ==
    IF from >= to THEN acc
    ELSE Number(data, from + 1, to, acc * 10 + Minus48(ByteAt(data, from)))

\* The two optional fields that end with a separator (lines 96-108 and
\* 110-123): when the field is there, scan to the separator and then test
\* data[idx], which is out of range when the packet ended first.
SkipField(data, idx, isThere, sep) ==
    IF idx < Len(data) /\ isThere
    THEN LET end == ScanUntil(data, idx, sep)
         IN  IF end >= Len(data)
             THEN [panic |-> TRUE, idx |-> end, from |-> idx, to |-> end]
             ELSE [panic |-> FALSE, idx |-> end + 1, from |-> idx, to |-> end]
    ELSE [panic |-> FALSE, idx |-> idx, from |-> idx, to |-> idx]

\* if idx < len(data) && data[idx] == '{' || data[idx] == '[' (line 135):
\* && binds tighter than ||, so data[idx] is read whenever the first operand is
\* false.
PayloadTest(data, idx) ==
    IF idx < Len(data) /\ ByteAt(data, idx) = 123
    THEN [panic |-> FALSE, payload |-> TRUE]
    ELSE IF idx >= Len(data)
         THEN [panic |-> TRUE, payload |-> FALSE]
         ELSE [panic |-> FALSE, payload |-> ByteAt(data, idx) = 91]

UnmarshalV4(data) ==
    IF Len(data) < 2 THEN [kind |-> "error", err |-> "ErrInvalidPacket"]
    ELSE IF Minus48(ByteAt(data, 0)) # 4 THEN [kind |-> "error", err |-> "ErrInvalidVersion"]
    ELSE IF Minus48(ByteAt(data, 1)) \notin 0..6 THEN [kind |-> "error", err |-> "ErrInvalidType"]
    ELSE LET att == SkipField(data, 2, IsDigit(ByteAt(data, 2)), 45)
             ns == SkipField(data, att.idx, ByteAt(data, att.idx) = 47, 44)
             idEnd == IF ns.idx < Len(data) /\ IsDigit(ByteAt(data, ns.idx))
                      THEN ScanUntil(data, ns.idx, 44)
                      ELSE ns.idx
             pay == PayloadTest(data, idEnd)
         IN  IF att.panic \/ ns.panic \/ pay.panic
             THEN [kind |-> "panic", err |-> "index out of range"]
             ELSE [kind |-> "ok", err |-> "nil",
                   Type |-> Minus48(ByteAt(data, 1)),
                   Attachments |-> Number(data, att.from, att.to, 0),
                   Namespace |-> SubSeq(data, ns.from + 1, ns.to),
                   ID |-> Number(data, ns.idx, idEnd, 0),
                   Payload |-> IF pay.payload THEN SubSeq(data, idEnd + 1, Len(data))
                               ELSE <<>>]

\* decoded, err := socketio.UnmarshalV4(msg) in SessionWebSocket.Watch.
UnmarshalV4Call ==
    /\ sioPC = "called"
    /\ sioResult' = UnmarshalV4(sioData)
    /\ sioPC' = "returned"
    /\ UNCHANGED sioData
    /\ UNCHANGED notSioVars

\* Every packet of at most MaxPacketLen bytes.
InitSio ==
    /\ EngineIdle
    /\ WatchIdle
    /\ ignore = NoIgnore
    /\ CfgIdle /\ TryIdle /\ DetIdle /\ ProbeIdle
    /\ LoginIdle /\ GpIdle /\ FileIdle /\ PpIdle
    /\ ChatIdle /\ BpIdle /\ SetIdle /\ IdleRuleIdle /\ GoIdle
    /\ sioData \in SeqUpTo(Bytes, MaxPacketLen)
    /\ sioPC = "called"
    /\ sioResult = <<>>

NextSio == UnmarshalV4Call

SpecSio == InitSio /\ [][NextSio]_vars

\* C40: UnmarshalV4 returns a message or an error for every packet; it never
\* panics.
C40_DecoderNeverPanics ==
    sioPC = "returned" => sioResult.kind \in {"ok", "error"}

====
